---------------------------- MODULE Spec2Model ----------------------------
(***************************************************************************)
(* A model of the structural wiki parser of trac/wiki/parser.py:           *)
(* WikiParser._detect_nested_blocks, parse_processor_params and the line   *)
(* classification of WikiParser._parse_between_blocks.                     *)
(*                                                                         *)
(* Text is modelled at character level: a line is a sequence of            *)
(* one-character strings, and the regular expressions of the parser are    *)
(* operators over such sequences, written after the expressions.           *)
(* Line and column numbers are 0-based as in the source; TLA+ sequences    *)
(* are 1-based, so line i of the document is lines[i + 1].                 *)
(***************************************************************************)
EXTENDS Integers, Sequences, FiniteSets, TLC

VARIABLES
    lines,      \* WikiDocument.lines
    heap,       \* the nodes; heap[1] is the scope given to the operation
    ancestors,  \* the stack of open blocks of _detect_nested_blocks
    i,          \* the loop variable i of the running method
    j,          \* the local variable j of _detect_nested_blocks
    pc,         \* the position in vertical_parsing
    tokens,     \* the tokens the argument of parse_processor_params is made of
    argument,   \* the argument processor_params of parse_processor_params
    result,     \* the dict parse_processor_params returns
    providers,  \* WikiParser.wiki_block_syntax_providers
    _block_raw_re,              \* the cached matcher of the line patterns
    _block_raw_handlers,        \* and its dict of builders
    _block_sensitive_re,        \* the cached matcher of the verbatim
    _block_sensitive_handlers,  \* sensitive line patterns, and its dict
    newnodes,   \* the list newnodes of _parse_between_blocks
    oldn,       \* the index n into oldnodes of _parse_between_blocks
    calls,      \* the calls of builders made by build_node, in order
    safe_line,  \* the local safe_line of _parse_between_blocks, if assigned,
                \* and the index of the line it is made of
    collected,  \* the calls of _collect_partial_patterns: their methods
    wikitext,   \* the argument wikitext of parse
    previous,   \* what the earlier calls of parse on the parser came to
    threads     \* the threads that use the parser at the same time

\* the state of a parse
parseVars == <<lines, heap, ancestors, i, j, pc>>

\* the state of a call of parse_processor_params
paramVars == <<tokens, argument, result>>

\* the providers and the cached matchers of the parser
ruleVars ==
    <<providers, _block_raw_re, _block_raw_handlers, _block_sensitive_re,
      _block_sensitive_handlers, collected>>

\* what the callers of the parser hold
callerVars == <<wikitext, previous, threads>>

\* the state of _parse_between_blocks
betweenVars == <<newnodes, oldn, calls, safe_line>>

\* the variables the detection of the blocks does not touch
restVars == <<paramVars, ruleVars, betweenVars, callerVars>>

vars == <<parseVars, paramVars, ruleVars, betweenVars, callerVars>>

---------------------------------------------------------------------------
(* Characters and character classes.                                       *)

WhiteSpace == {" ", "\t"}

Letters == {"a", "b", "c", "d", "e", "f", "g", "h", "i", "j", "k", "l", "m",
            "n", "o", "p", "q", "r", "s", "t", "u", "v", "w", "x", "y", "z"}

Digits == {"0", "1", "2", "3", "4", "5", "6", "7", "8", "9"}

\* \w without re.UNICODE
WordChars == Letters \cup Digits \cup {"_"}

\* [\w+-], the first character of a processor name
NameFirst == WordChars \cup {"+", "-"}

\* [\w+-/], the next characters: the range +-/ is the characters + , - . /
NameRest == WordChars \cup {"+", ",", "-", ".", "/"}

STARTBLOCK == <<"{", "{", "{">>

ENDBLOCK == <<"}", "}", "}">>

---------------------------------------------------------------------------
(* String operations of Python on character sequences.                     *)

\* s[n:]
Drop(s, n) == SubSeq(s, n + 1, Len(s))

\* s.startswith(t)
StartsWith(s, t) == Len(s) >= Len(t) /\ SubSeq(s, 1, Len(t)) = t

\* s.find(t): the 0-based index of the first occurrence, -1 if none
Find(s, t) ==
    LET hits == {p \in 0..(Len(s) - Len(t)) : SubSeq(s, p + 1, p + Len(t)) = t}
    IN  IF hits = {} THEN -1 ELSE CHOOSE p \in hits : \A q \in hits : p <= q

\* t in s
Contains(s, t) == Find(s, t) >= 0

\* the length of the match of \s* at the start of s
IndentLen(s) ==
    LET stops == {p \in 1..Len(s) : s[p] \notin WhiteSpace}
    IN  IF stops = {} THEN Len(s)
        ELSE (CHOOSE p \in stops : \A q \in stops : p <= q) - 1

\* s.strip()
Strip(s) ==
    LET keep == {p \in 1..Len(s) : s[p] \notin WhiteSpace}
    IN  IF keep = {} THEN <<>>
        ELSE SubSeq(s, CHOOSE p \in keep : \A q \in keep : p <= q,
                       CHOOSE p \in keep : \A q \in keep : p >= q)

\* the last index q >= p - 1 such that s[p..q] lies in the class cls
RunEnd(s, p, cls) ==
    LET stops == {q \in p..Len(s) : s[q] \notin cls}
    IN  IF stops = {} THEN Len(s)
        ELSE (CHOOSE q \in stops : \A r \in stops : q <= r) - 1

RECURSIVE SplitFrom(_, _)
\* s.split() from index p on: the maximal runs of non-whitespace
SplitFrom(s, p) ==
    LET starts == {q \in p..Len(s) : s[q] \notin WhiteSpace}
    IN  IF starts = {} THEN <<>>
        ELSE LET b == CHOOSE q \in starts : \A r \in starts : q <= r
                 stops == {q \in b..Len(s) : s[q] \in WhiteSpace}
                 e == IF stops = {} THEN Len(s)
                      ELSE (CHOOSE q \in stops : \A r \in stops : q <= r) - 1
             IN  <<SubSeq(s, b, e)>> \o SplitFrom(s, e + 1)

Split(s) == SplitFrom(s, 1)

---------------------------------------------------------------------------
(* parse_processor_params                                                  *)

\* A parameter value: a string (name=value) or a bool (a flag).
StrVal(s) == [kind |-> "str", str |-> s, bool |-> FALSE]

BoolVal(b) == [kind |-> "bool", str |-> <<>>, bool |-> b]

NoMatch == [ok |-> FALSE, name |-> <<>>, val |-> <<>>, end |-> 0]

\* PROCESSOR_PARAM matched at index p (1-based) of s:
\*   (?P<proc_pname>\w+)=(?P<proc_pval>".*?"|'.*?'|\w+)
\* end is the index of the last character matched.
ParamMatchAt(s, p) ==
    LET q == RunEnd(s, p, WordChars)
        v == q + 2
        quoted(c) ==
            LET close == {e \in (v + 1)..Len(s) : s[e] = c}
            IN  IF close = {} THEN NoMatch
                ELSE LET e == CHOOSE x \in close : \A y \in close : x <= y
                     IN  [ok |-> TRUE, name |-> SubSeq(s, p, q),
                          val |-> SubSeq(s, v, e), end |-> e]
    IN  IF q < p \/ q + 1 > Len(s) \/ v > Len(s) THEN NoMatch
        ELSE IF s[q + 1] # "=" THEN NoMatch
        ELSE IF s[v] = "\"" THEN quoted("\"")
        ELSE IF s[v] = "'" THEN quoted("'")
        ELSE IF s[v] \in WordChars
             THEN [ok |-> TRUE, name |-> SubSeq(s, p, q),
                   val |-> SubSeq(s, v, RunEnd(s, v, WordChars)),
                   end |-> RunEnd(s, v, WordChars)]
        ELSE NoMatch

\* the leftmost index >= from where PROCESSOR_PARAM matches, 0 if none
ParamSearch(s, from) ==
    LET hits == {p \in from..Len(s) : ParamMatchAt(s, p).ok}
    IN  IF hits = {} THEN 0 ELSE CHOOSE p \in hits : \A q \in hits : p <= q

RECURSIVE ParamSplit(_, _)
\* _processor_param_re.split(s), from index `from` on:
\* <<text, name, value, text, name, value, ..., text>>
ParamSplit(s, from) ==
    LET p == ParamSearch(s, from)
    IN  IF p = 0 THEN <<SubSeq(s, from, Len(s))>>
        ELSE LET m == ParamMatchAt(s, p)
             IN  <<SubSeq(s, from, p - 1), m.name, m.val>>
                 \o ParamSplit(s, m.end + 1)

\* the quotes kept around the value
UnquoteKept(v) == v

\* v[1:-1] if v[:1] + v[-1:] in ('""', "''") else v
Unquote(v) ==
    IF Len(v) >= 1 /\ v[1] = v[Len(v)] /\ v[1] \in {"\"", "'"}
    THEN SubSeq(v, 2, Len(v) - 1)
    ELSE v

\* re.match(r'-?\w+$', flag)
IsFlag(flag) ==
    LET w == IF Len(flag) >= 1 /\ flag[1] = "-" THEN Drop(flag, 1) ELSE flag
    IN  Len(w) >= 1 /\ \A p \in 1..Len(w) : w[p] \in WordChars

\* the (key, value) pairs the flags of one text piece append
RECURSIVE FlagPairs(_)
FlagPairs(flags) ==
    IF flags = <<>> THEN <<>>
    ELSE LET flag == Head(flags)
             this == IF ~IsFlag(flag) THEN <<>>
                     ELSE IF flag[1] = "-"
                          THEN IF Len(flag) > 1
                               THEN <<[key |-> Drop(flag, 1), val |-> BoolVal(FALSE)]>>
                               ELSE <<>>
                          ELSE <<[key |-> flag, val |-> BoolVal(TRUE)]>>
         IN  this \o FlagPairs(Tail(flags))

\* keys and values of the name=value matches: args[1::3], args[2::3]
RECURSIVE AssignPairs(_)
AssignPairs(args) ==
    IF Len(args) < 3 THEN <<>>
    ELSE <<[key |-> args[2], val |-> StrVal(Unquote(args[3]))]>>
         \o AssignPairs(SubSeq(args, 4, Len(args)))

\* the pairs of the flags of all text pieces: args[::3]
RECURSIVE AllFlagPairs(_)
AllFlagPairs(args) ==
    IF args = <<>> THEN <<>>
    ELSE FlagPairs(Split(Strip(args[1])))
         \o AllFlagPairs(SubSeq(args, 4, Len(args)))

RECURSIVE DictOf(_)
\* dict(pairs): a later pair overwrites an earlier one of the same key
DictOf(pairs) ==
    IF pairs = <<>> THEN <<>>
    ELSE LET d == DictOf(SubSeq(pairs, 1, Len(pairs) - 1))
             last == pairs[Len(pairs)]
         IN  [k \in DOMAIN d \cup {last.key} |->
                 IF k = last.key THEN last.val ELSE d[k]]

\* the list zip(keys, values) at the return statement
ParamPairs(processor_params) ==
    LET args == ParamSplit(processor_params, 1)
    IN  AssignPairs(args) \o AllFlagPairs(args)

parse_processor_params(processor_params) == DictOf(ParamPairs(processor_params))

---------------------------------------------------------------------------
(* The regular expressions of the block detection.                         *)

\* _processor_re.match(s), PROCESSOR = (\s*)#\!([\w+-][\w+-/]*)
\* name is group(2), end is match.end()
ProcessorMatch(s) ==
    LET ws == IndentLen(s)
    IN  IF /\ Len(s) >= ws + 3
           /\ s[ws + 1] = "#"
           /\ s[ws + 2] = "!"
           /\ s[ws + 3] \in NameFirst
        THEN [ok |-> TRUE, name |-> SubSeq(s, ws + 3, RunEnd(s, ws + 4, NameRest)),
              val |-> <<>>, end |-> RunEnd(s, ws + 4, NameRest)]
        ELSE NoMatch

\* _startblock_re.match(line): \s*{{{(?:PROCESSOR|\s*$)
\* name is group(2), empty when the second alternative matched
StartBlockMatch(line) ==
    LET ws == IndentLen(line)
        rest == Drop(line, ws + 3)
        m == ProcessorMatch(rest)
    IN  IF ~StartsWith(Drop(line, ws), STARTBLOCK) THEN NoMatch
        ELSE IF m.ok THEN [m EXCEPT !.end = ws + 3 + m.end]
        ELSE IF IndentLen(rest) = Len(rest)
             THEN [ok |-> TRUE, name |-> <<>>, val |-> <<>>, end |-> Len(line)]
        ELSE NoMatch

---------------------------------------------------------------------------
(* The Wiki DOM.  Every node is a record of the heap; a node refers to     *)
(* its children by their heap indices.  -1 stands for None.                *)

\* WikiNode.__init__(i, j, k) of the class `type`
WikiNode(type, ni, nj, nk) ==
    [type |-> type, i |-> ni, j |-> nj, k |-> IF nk > 0 THEN nk ELSE -1,
     start |-> -1, end |-> -1, name |-> <<>>, params |-> <<>>, nodes |-> <<>>,
     comment |-> <<>>, kind |-> <<>>, depth |-> 1, anchor |-> <<>>,
     both_sides |-> FALSE, term |-> -1]

\* WikiBlock.__init__(i, j, name, params)
WikiBlock(bi, bj, name, params) ==
    [WikiNode("WikiBlock", bi, bj, -1) EXCEPT
        !.start = bi + 1, !.end = bi + 1, !.name = name, !.params = params]

\* start and end are left as WikiBlock.__init__ sets them
WikiDocumentUnsized(text) ==
    [WikiBlock(0, 0, <<>>, <<>>) EXCEPT !.type = "WikiDocument"]

\* WikiDocument.__init__(text), for a text of the given lines
WikiDocument(text) ==
    [WikiBlock(0, 0, <<>>, <<>>) EXCEPT
        !.type = "WikiDocument", !.start = 0, !.end = Len(text)]

---------------------------------------------------------------------------
(* WikiParser._detect_nested_blocks(wikidoc, scope), one action for each   *)
(* path through the body of its for loop, and one for the final while.     *)

scope == heap[1]

\* line = wikidoc.lines[i]; if scope.j: line = line[scope.j:]
ScopedLine(n) == Drop(lines[n + 1], scope.j)

InScan == pc = "scan" /\ i < scope.end

\* ancestors[-1]
Top == ancestors[Len(ancestors)]

\* the closing token anywhere in the line closes the innermost open block
EndInsideCloses ==
    /\ pc = "scan" /\ i < heap[1].end
    /\ Contains(Drop(lines[i + 1], heap[1].j), ENDBLOCK)
    /\ ~StartsWith(Strip(Drop(lines[i + 1], heap[1].j)), ENDBLOCK)
    /\ IF Len(ancestors) > 1
       THEN /\ heap' = [heap EXCEPT ![ancestors[Len(ancestors)]].end = i]
            /\ ancestors' = SubSeq(ancestors, 1, Len(ancestors) - 1)
       ELSE UNCHANGED <<heap, ancestors>>
    /\ i' = i + 1
    /\ UNCHANGED <<lines, j, pc, restVars>>

\* a line holding ENDBLOCK which does not start with it once stripped
SkipEndInside ==
    /\ InScan
    /\ Contains(ScopedLine(i), ENDBLOCK)
    /\ ~StartsWith(Strip(ScopedLine(i)), ENDBLOCK)
    /\ i' = i + 1
    /\ UNCHANGED <<lines, heap, ancestors, j, pc, restVars>>

\* a closing line that has no block to close ends the scope
StrayEndClosesScope ==
    /\ pc = "scan" /\ i < heap[1].end
    /\ StartsWith(Strip(Drop(lines[i + 1], heap[1].j)), ENDBLOCK)
    /\ Len(ancestors) = 1
    /\ heap' = [heap EXCEPT ![1].end = i]
    /\ i' = i + 1
    /\ UNCHANGED <<lines, ancestors, j, pc, restVars>>

\* if len(ancestors) == 1: continue
StrayEnd ==
    /\ InScan
    /\ Contains(ScopedLine(i), ENDBLOCK)
    /\ StartsWith(Strip(ScopedLine(i)), ENDBLOCK)
    /\ Len(ancestors) = 1
    /\ i' = i + 1
    /\ UNCHANGED <<lines, heap, ancestors, j, pc, restVars>>

\* the comment is what follows the closing token in the line as it is read,
\* the white space at its end included
ClosedBlockUntrimmed(block, line) ==
    LET b1 == [block EXCEPT
                  !.end = i,
                  !.comment =
                      IF line # ENDBLOCK
                      THEN Drop(ScopedLine(i),
                                Find(ScopedLine(i), ENDBLOCK) + Len(ENDBLOCK))
                      ELSE @]
        startline == IF scope.j # 0 THEN Drop(lines[b1.start + 1], j)
                     ELSE lines[b1.start + 1]
        match == ProcessorMatch(startline)
    IN  IF b1.name = <<>> /\ b1.end - b1.start > 0 /\ match.ok
        THEN [b1 EXCEPT
                 !.start = @ + 1,
                 !.name = match.name,
                 !.params = parse_processor_params(Drop(startline, match.end))]
        ELSE b1

\* the block popped by a closing line, once end, comment and processor are set
ClosedBlock(block, line) ==
    LET b1 == [block EXCEPT
                  !.end = i,
                  !.comment = IF line # ENDBLOCK THEN Drop(line, Len(ENDBLOCK))
                              ELSE @]
        startline == IF scope.j # 0 THEN Drop(lines[b1.start + 1], j)
                     ELSE lines[b1.start + 1]
        match == ProcessorMatch(startline)
    IN  IF b1.name = <<>> /\ b1.end - b1.start > 0 /\ match.ok
        THEN [b1 EXCEPT
                 !.start = @ + 1,
                 !.name = match.name,
                 !.params = parse_processor_params(Drop(startline, match.end))]
        ELSE b1

\* block = ancestors.pop() ...
CloseBlock ==
    /\ InScan
    /\ Contains(ScopedLine(i), ENDBLOCK)
    /\ StartsWith(Strip(ScopedLine(i)), ENDBLOCK)
    /\ Len(ancestors) # 1
    /\ heap' = [heap EXCEPT ![Top] = ClosedBlock(heap[Top], Strip(ScopedLine(i)))]
    /\ ancestors' = SubSeq(ancestors, 1, Len(ancestors) - 1)
    /\ i' = i + 1
    /\ UNCHANGED <<lines, j, pc, restVars>>

\* the column of the block is the one in the line as it was sliced
OpenedBlockRelative(line, match) ==
    WikiBlock(i, Find(line, STARTBLOCK), match.name,
              IF match.name # <<>>
              THEN parse_processor_params(Drop(line, match.end))
              ELSE <<>>)

\* the block a matching opening line creates
OpenedBlock(line, match) ==
    WikiBlock(i, Find(line, STARTBLOCK) + scope.j, match.name,
              IF match.name # <<>>
              THEN parse_processor_params(Drop(line, match.end))
              ELSE <<>>)

\* the child assigned as the only child: nodes = [block]
AppendChildAssigned(h, parent, child) ==
    [h EXCEPT ![parent].nodes = <<child>>]

\* the child appended to the scope: ancestors[0].nodes.append(block)
AppendChildToScope(h, parent, child) ==
    [h EXCEPT ![1].nodes = Append(@, child)]

\* ancestors[-1].nodes.append(block)
AppendChild(h, parent, child) ==
    [h EXCEPT ![parent].nodes = Append(@, child)]

\* match = self._startblock_re.match(line); if match: ...
OpenBlock ==
    /\ InScan
    /\ ~Contains(ScopedLine(i), ENDBLOCK)
    /\ StartBlockMatch(ScopedLine(i)).ok
    /\ LET block == OpenedBlock(ScopedLine(i), StartBlockMatch(ScopedLine(i)))
           ref == Len(heap) + 1
       IN  /\ j' = block.j
           /\ heap' = AppendChild(Append(heap, block), Top, ref)
           /\ ancestors' = Append(ancestors, ref)
    /\ i' = i + 1
    /\ UNCHANGED <<lines, pc, restVars>>

\* neither a closing token nor an opening line
SkipLine ==
    /\ InScan
    /\ ~Contains(ScopedLine(i), ENDBLOCK)
    /\ ~StartBlockMatch(ScopedLine(i)).ok
    /\ i' = i + 1
    /\ UNCHANGED <<lines, heap, ancestors, j, pc, restVars>>

\* an if in place of the while: only the innermost open block is closed
ForceClosedInnermost(h, stack) ==
    [n \in DOMAIN h |->
        IF Len(stack) > 1 /\ stack[Len(stack)] = n
        THEN [h[n] EXCEPT !.end = h[1].end]
        ELSE h[n]]

\* a block closed at the end of the scope is looked at for a processor
\* marker on its first content line, as one that a line closes is
ForceClosedInspected(h, stack) ==
    [n \in DOMAIN h |->
        IF \E d \in 2..Len(stack) : stack[d] = n
        THEN IF /\ h[n].name = <<>>
                /\ h[1].end - h[n].start > 0
                /\ ProcessorMatch(Drop(lines[h[n].start + 1], h[1].j)).ok
             THEN [h[n] EXCEPT
                      !.end = h[1].end,
                      !.start = @ + 1,
                      !.name = ProcessorMatch(
                                   Drop(lines[h[n].start + 1], h[1].j)).name]
             ELSE [h[n] EXCEPT !.end = h[1].end]
        ELSE h[n]]

\* while len(ancestors) > 1: block = ancestors.pop(); block.end = scope.end
ForceClosed(h, stack) ==
    [n \in DOMAIN h |->
        IF \E d \in 2..Len(stack) : stack[d] = n
        THEN [h[n] EXCEPT !.end = h[1].end]
        ELSE h[n]]

CloseUnfinished ==
    /\ pc = "scan"
    /\ i >= scope.end
    /\ heap' = ForceClosed(heap, ancestors)
    /\ ancestors' = <<1>>
    /\ pc' = "detected"
    /\ UNCHANGED <<lines, i, j, restVars>>

---------------------------------------------------------------------------
(* The patterns of TracWikiSyntax (classic.py), as texts and as matchers.  *)
(* A matcher gives the match of its pattern at column pos of the line s:   *)
(* start and end are the span of the match, gs and ge the span of the      *)
(* named group the builder reads.                                          *)

\* classic.py, build_ulist_item:  +(?P<trac_bullet>[-*])(?: |$)
BulletRe ==
    <<" ", "+", "(", "?", "P", "<", "t", "r", "a", "c", "_", "b", "u", "l",
    "l", "e", "t", ">", "[", "-", "*", "]", ")", "(", "?", ":", " ", "|",
    "$", ")">>

\* classic.py, build_row:  *\|\|
RowRe ==
    <<" ", "*", "\\", "|", "\\", "|">>

\* classic.py, build_section: (?P<trac_sec_depth>={1,6}) (?P<trac_sec>.*?)(?P<trac_sec_anchor>#[\w:](?<!\d)[\w:.-]*?)? *$
SectionRe ==
    <<"(", "?", "P", "<", "t", "r", "a", "c", "_", "s", "e", "c", "_", "d",
    "e", "p", "t", "h", ">", "=", "{", "1", ",", "6", "}", ")", " ", "(",
    "?", "P", "<", "t", "r", "a", "c", "_", "s", "e", "c", ">", ".", "*",
    "?", ")", "(", "?", "P", "<", "t", "r", "a", "c", "_", "s", "e", "c",
    "_", "a", "n", "c", "h", "o", "r", ">", "#", "[", "\\", "w", ":", "]",
    "(", "?", "<", "!", "\\", "d", ")", "[", "\\", "w", ":", ".", "-", "]",
    "*", "?", ")", "?", " ", "*", "$">>

\* classic.py, build_rule:  *-{4,} *$
RuleRe ==
    <<" ", "*", "-", "{", "4", ",", "}", " ", "*", "$">>

\* classic.py, build_dl:  +(?P<trac_term>(?:[^:]|:[^:])+)::(?: |$)
DlRe ==
    <<" ", "+", "(", "?", "P", "<", "t", "r", "a", "c", "_", "t", "e", "r",
    "m", ">", "(", "?", ":", "[", "^", ":", "]", "|", ":", "[", "^", ":",
    "]", ")", "+", ")", ":", ":", "(", "?", ":", " ", "|", "$", ")">>

NoRegexMatch == [ok |-> FALSE, start |-> 0, end |-> 0, gs |-> 0, ge |-> 0]

RegexMatch(start, end, gs, ge) ==
    [ok |-> TRUE, start |-> start, end |-> end, gs |-> gs, ge |-> ge]

\* pattern.match(s, pos) starts at len(s) when pos is beyond the line
Clamp(s, pos) == IF pos > Len(s) THEN Len(s) ELSE pos

\* the number of characters of the class cls from column p on
RunLen(s, p, cls) == RunEnd(s, p + 1, cls) - p

\* the column after the characters of the class cls from column p on
After(s, p, cls) == p + RunLen(s, p, cls)

\* the least and the greatest element of a set of numbers that is not empty
Least(S) == CHOOSE x \in S : \A y \in S : x <= y

Greatest(S) == CHOOSE x \in S : \A y \in S : x >= y

\* the bullet at column b, after the spaces from column p on
BulletFrom(s, p, b) ==
    IF b > p /\ b < Len(s) /\ s[b + 1] \in {"-", "*"}
       /\ (b + 1 = Len(s) \/ s[b + 2] = " ")
    THEN RegexMatch(p, IF b + 1 = Len(s) THEN b + 1 ELSE b + 2, b, b + 1)
    ELSE NoRegexMatch

\* ' +(?P<trac_bullet>[-*])(?: |$)'
BulletMatch(s, pos) ==
    BulletFrom(s, Clamp(s, pos), After(s, Clamp(s, pos), {" "}))

RowFrom(s, p, b) ==
    IF b + 2 <= Len(s) /\ s[b + 1] = "|" /\ s[b + 2] = "|"
    THEN RegexMatch(p, b + 2, b, b + 2)
    ELSE NoRegexMatch

\* ' *\|\|'
RowMatch(s, pos) == RowFrom(s, Clamp(s, pos), After(s, Clamp(s, pos), {" "}))

\* the dashes from column b to column d, then spaces
RuleFrom(s, p, b, d) ==
    IF d - b >= 4 /\ After(s, d, {" "}) = Len(s)
    THEN RegexMatch(p, Len(s), b, d)
    ELSE NoRegexMatch

RuleDashes(s, p, b) == RuleFrom(s, p, b, After(s, b, {"-"}))

\* ' *-{4,} *$'
RuleMatch(s, pos) ==
    RuleDashes(s, Clamp(s, pos), After(s, Clamp(s, pos), {" "}))

\* XML_NAME = [\w:](?<!\d)[\w:.-]*?
XmlFirst == (WordChars \ Digits) \cup {":"}

XmlRest == WordChars \cup {":", ".", "-"}

LeastOr(S, none) == IF S = {} THEN none ELSE Least(S)

\* the first position from p on that holds a character of the class cls,
\* Len(s) + 1 when none does
FirstOf(s, p, cls) == LeastOr({q \in p..Len(s) : s[q] \in cls}, Len(s) + 1)

\* s[t:] matches (?P<trac_sec_anchor>#XML_NAME)? *$ ; the end of the
\* anchor when it does (t when there is no anchor), -1 when it does not
AnchorEnd(s, t) ==
    IF After(s, t, {" "}) = Len(s) THEN t
    ELSE IF t + 2 <= Len(s) /\ s[t + 1] = "#" /\ s[t + 2] \in XmlFirst
    THEN LeastOr({e \in (t + 2)..After(s, t + 2, XmlRest) :
                     After(s, e, {" "}) = Len(s)}, -1)
    ELSE -1

\* the heading from column h on, after d characters = and a space
SectionFrom(s, p, d, h) ==
    IF d >= 1 /\ d <= 6 /\ h <= Len(s) /\ s[h] = " "
    THEN RegexMatch(p, Len(s), h,
                    Least({t \in h..Len(s) : AnchorEnd(s, t) >= 0}))
    ELSE NoRegexMatch

SectionDepth(s, p, d) == SectionFrom(s, p, d, p + d + 1)

\* '(?P<trac_sec_depth>={1,6}) (?P<trac_sec>.*?)(?P<trac_sec_anchor>#...)? *$'
\* gs and ge are the span of trac_sec
SectionMatch(s, pos) ==
    SectionDepth(s, Clamp(s, pos), RunLen(s, Clamp(s, pos), {"="}))

\* s[a:e] matches (?:[^:]|:[^:])+
IsTerm(s, a, e) ==
    /\ e > a
    /\ \A q \in (a + 1)..e : s[q] = ":" => (q < e /\ s[q + 1] # ":")

\* s[a:e] is a term, and :: and a space or the end of the line follow it
TermFits(s, a, e) ==
    /\ IsTerm(s, a, e)
    /\ e + 2 <= Len(s) /\ s[e + 1] = ":" /\ s[e + 2] = ":"
    /\ (e + 2 = Len(s) \/ s[e + 3] = " ")

\* the term from column a to column e
DlTerm(s, p, a, e) ==
    RegexMatch(p, IF e + 2 = Len(s) THEN e + 2 ELSE e + 3, a, e)

\* the longest term from column a on
DlFrom(s, p, a) ==
    DlTerm(s, p, a, Greatest({e \in a..Len(s) : TermFits(s, a, e)}))

\* the columns a term can start at, after at least one space
DlStarts(s, p, first) ==
    IF first = {} THEN NoRegexMatch ELSE DlFrom(s, p, Greatest(first))

DlSpaces(s, p, b) ==
    DlStarts(s, p, {a \in (p + 1)..b : \E e \in a..Len(s) : TermFits(s, a, e)})

\* ' +(?P<trac_term>(?:[^:]|:[^:])+)::(?: |$)': the most spaces, then the
\* longest term
DlMatch(s, pos) == DlSpaces(s, Clamp(s, pos), After(s, Clamp(s, pos), {" "}))

\* the backquote, one character of a line; this module's strings cannot
\* hold a backquote without the quote that follows it here
Backquote == "`'"

\* the end of the span to mask that starts at column p, p when none does
SpanEnd(s, p, tick, body) ==
    IF s[p + 1] = Backquote /\ tick > p + 2 THEN tick
    ELSE IF StartsWith(Drop(s, p), STARTBLOCK) /\ body > p + 3 THEN body + 3
    ELSE p

RECURSIVE SafeFrom(_, _)
RECURSIVE SafeAt(_, _, _)
RECURSIVE SafeSpan(_, _, _)
\* the span from column p to column e is replaced by a single x
SafeSpanShortened(s, p, e) ==
    IF e > p THEN <<"x">> \o SafeFrom(s, e)
    ELSE <<s[p + 1]>> \o SafeFrom(s, p + 1)

\* the line from column p on, the span from column p to column e masked
\* when there is one
SafeSpan(s, p, e) ==
    IF e > p THEN [q \in 1..(e - p) |-> "x"] \o SafeFrom(s, e)
    ELSE <<s[p + 1]>> \o SafeFrom(s, p + 1)

\* the line from column p on, a span being tried at the next column c that
\* holds a backquote or a brace
SafeAt(s, p, c) ==
    IF c >= Len(s) THEN Drop(s, p)
    ELSE SubSeq(s, p + 1, c)
             \o SafeSpan(s, c,
                    SpanEnd(s, c,
                        LeastOr({e \in (c + 2)..Len(s) : s[e] = Backquote}, 0),
                        LeastOr({e \in (c + 3)..(Len(s) - 3) :
                                    SubSeq(s, e + 1, e + 3) = ENDBLOCK}, 0)))

\* make_verbatime_safe(line) from column p on: a span between two
\* backquotes, or from an opening token to the first closing token, is
\* replaced by as many x (both spans hold at least one character)
SafeFrom(s, p) == SafeAt(s, p, FirstOf(s, p + 1, {Backquote, "{"}) - 1)

make_verbatime_safe(line) == SafeFrom(line, 0)

---------------------------------------------------------------------------
(* The providers and WikiParser._collect_partial_patterns.  A contribution *)
(* is a pattern and the name of its builder; a provider gives a list of    *)
(* contributions for each of the two methods the parser asks for.          *)

Contribution(regexp, builder) == [regexp |-> regexp, builder |-> builder]

Provider(name, line_patterns, sensitive_patterns) ==
    [name |-> name,
     get_wiki_line_patterns |-> line_patterns,
     get_wiki_verbatim_sensitive_line_patterns |-> sensitive_patterns]

\* classic.py, TracWikiSyntax
TracWikiSyntax ==
    Provider("TracWikiSyntax",
             <<Contribution(BulletRe, "build_ulist_item"),
               Contribution(RowRe, "build_row"),
               Contribution(SectionRe, "build_section"),
               Contribution(RuleRe, "build_rule")>>,
             <<Contribution(DlRe, "build_dl")>>)

\* the reserved group names are not looked for
ForbiddenNever(regexp) == FALSE

\* _private_helper_re.findall(regexp) is not empty: P<_i, digits, >
Forbidden(regexp) ==
    \E p \in 1..Len(regexp) :
        LET d == RunLen(regexp, p + 3, Digits)
        IN  /\ StartsWith(Drop(regexp, p - 1), <<"P", "<", "_", "i">>)
            /\ d >= 1
            /\ p + 4 + d <= Len(regexp)
            /\ regexp[p + 4 + d] = ">"

\* the characters of a pattern that are not read as themselves
Special == {"\\", "[", "(", ")", "|", "*", "+"}

\* the position of the ] that closes the class opened at position p, 0
\* when none does
ClassEnd(s, p) ==
    LeastOr({q \in (IF p < Len(s) /\ s[p + 1] = "^" THEN p + 3 ELSE p + 2)..Len(s) :
                s[q] = "]" /\ s[q - 1] # "\\"}, 0)

RECURSIVE ValidFrom(_, _, _, _)
RECURSIVE ValidAt(_, _, _, _)
\* re.compile of the pattern s succeeds, read from position p on with
\* `open` groups open and `atom` telling that there is something to repeat:
\* an escape has its character, a class is closed, the parentheses are
\* balanced and * or + follow something
ValidFrom(s, p, open, atom) ==
    ValidAt(s, FirstOf(s, p, Special), open, atom \/ FirstOf(s, p, Special) > p)

\* the same, a special character or the end of the pattern being at p
ValidAt(s, p, open, atom) ==
    CASE p > Len(s) -> open = 0
      [] p <= Len(s) /\ s[p] = "\\" ->
            p < Len(s) /\ ValidFrom(s, p + 2, open, TRUE)
      [] p <= Len(s) /\ s[p] = "[" ->
            ClassEnd(s, p) > 0 /\ ValidFrom(s, ClassEnd(s, p) + 1, open, TRUE)
      [] p <= Len(s) /\ s[p] = "(" -> ValidFrom(s, p + 1, open + 1, FALSE)
      [] p <= Len(s) /\ s[p] = ")" ->
            open > 0 /\ ValidFrom(s, p + 1, open - 1, TRUE)
      [] p <= Len(s) /\ s[p] = "|" -> ValidFrom(s, p + 1, open, FALSE)
      [] OTHER -> atom /\ ValidFrom(s, p + 1, open, TRUE)

\* re.compile(regexp) does not raise re.error
Compiles(regexp) == ValidFrom(regexp, 1, 0, FALSE)

RECURSIVE Str(_)
\* str(n)
Str(num) ==
    LET digit == <<"0", "1", "2", "3", "4", "5", "6", "7", "8", "9">>
    IN  IF num < 10 THEN <<digit[num + 1]>>
        ELSE Str(num \div 10) \o <<digit[(num % 10) + 1]>>

\* key = '_i' + str(i)
Key(num) == <<"_", "i">> \o Str(num)

\* provider_method() for each provider that has the method, in the order
\* of the providers and then of the contributions
RECURSIVE Contributions(_, _)
Contributions(provs, method) ==
    IF provs = <<>> THEN <<>>
    ELSE provs[1][method] \o Contributions(Tail(provs), method)

RECURSIVE CollectUntilRejected(_, _)
\* a rejected contribution ends the collection (break for continue)
CollectUntilRejected(cs, num) ==
    IF cs = <<>> THEN [regexps |-> <<>>, handlers |-> <<>>]
    ELSE IF Forbidden(cs[1].regexp) \/ ~Compiles(cs[1].regexp)
    THEN [regexps |-> <<>>, handlers |-> <<>>]
    ELSE LET rest == CollectUntilRejected(Tail(cs), num + 1)
         IN  [regexps |->
                  <<[key |-> Key(num), regexp |-> cs[1].regexp]>>
                      \o rest.regexps,
              handlers |->
                  <<[key |-> Key(num), val |-> cs[1].builder]>>
                      \o rest.handlers]

RECURSIVE CollectCountingRejected(_, _)
\* i is incremented for a rejected contribution as well
CollectCountingRejected(cs, num) ==
    IF cs = <<>> THEN [regexps |-> <<>>, handlers |-> <<>>]
    ELSE LET rest == CollectCountingRejected(Tail(cs), num + 1)
         IN  IF Forbidden(cs[1].regexp) \/ ~Compiles(cs[1].regexp) THEN rest
             ELSE [regexps |->
                       <<[key |-> Key(num), regexp |-> cs[1].regexp]>>
                           \o rest.regexps,
                   handlers |->
                       <<[key |-> Key(num), val |-> cs[1].builder]>>
                           \o rest.handlers]

RECURSIVE CollectFrom(_, _)
\* the loop of _collect_partial_patterns over the contributions cs, i being
\* num: regexps is the list of the wrapped patterns (?P<key>regexp), given
\* as the pairs of key and regexp, and handlers is the list the dict is
\* made of
CollectFrom(cs, num) ==
    IF cs = <<>> THEN [regexps |-> <<>>, handlers |-> <<>>]
    ELSE IF Forbidden(cs[1].regexp) \/ ~Compiles(cs[1].regexp)
    THEN CollectFrom(Tail(cs), num)
    ELSE LET rest == CollectFrom(Tail(cs), num + 1)
         IN  [regexps |->
                  <<[key |-> Key(num), regexp |-> cs[1].regexp]>>
                      \o rest.regexps,
              handlers |->
                  <<[key |-> Key(num), val |-> cs[1].builder]>>
                      \o rest.handlers]

_collect_partial_patterns(provs, method) ==
    LET c == CollectFrom(Contributions(provs, method), 0)
    IN  [regexps |-> c.regexps, handlers |-> DictOf(c.handlers)]

RECURSIVE GroupNamesFrom(_, _)
RECURSIVE GroupNamesAt(_, _)
\* the names of the groups (?P<name>...) of the pattern s from position p on
GroupNamesFrom(s, p) == GroupNamesAt(s, FirstOf(s, p, {"("}))

\* the same, a parenthesis or the end of the pattern being at p
GroupNamesAt(s, p) ==
    IF p + 3 > Len(s) THEN <<>>
    ELSE IF SubSeq(s, p, p + 3) = <<"(", "?", "P", "<">>
    THEN <<SubSeq(s, p + 4, RunEnd(s, p + 4, WordChars))>>
             \o GroupNamesFrom(s, p + 4)
    ELSE GroupNamesFrom(s, p + 1)

RECURSIVE AllGroupNames(_)
AllGroupNames(regexps) ==
    IF regexps = <<>> THEN <<>>
    ELSE <<regexps[1].key>> \o GroupNamesFrom(regexps[1].regexp, 1)
             \o AllGroupNames(Tail(regexps))

\* re.compile('(?:%s)' % '|'.join(regexps), re.UNICODE) does not raise:
\* no group name is defined twice
Composes(regexps) ==
    LET names == AllGroupNames(regexps)
    IN  \A a, b \in DOMAIN names : names[a] = names[b] => a = b

\* patterns of other providers: one for a star item, one that matches
\* the empty string, one that does not compile, one with a reserved name
StarRe == <<" ", "+", "\\", "*">>

IndentRe == <<" ", "*">>

BadRe == <<" ", "*", "(">>

ReservedRe == <<"(", "?", "P", "<", "_", "i", "0", ">", "-", ")">>

\* ' +\*'; the star at column b, after the spaces from column p on
StarFrom(s, p, b) ==
    IF b > p /\ b < Len(s) /\ s[b + 1] = "*"
    THEN RegexMatch(p, b + 1, b, b + 1)
    ELSE NoRegexMatch

StarMatch(s, pos) == StarFrom(s, Clamp(s, pos), After(s, Clamp(s, pos), {" "}))

\* ' *'
IndentFrom(s, p, b) == RegexMatch(p, b, p, b)

IndentMatch(s, pos) ==
    IndentFrom(s, Clamp(s, pos), After(s, Clamp(s, pos), {" "}))

\* the match of one alternative of a composed matcher; the patterns that
\* are never accepted match nothing
MatchAt(regexp, s, pos) ==
    CASE regexp = BulletRe -> BulletMatch(s, pos)
      [] regexp = RowRe -> RowMatch(s, pos)
      [] regexp = SectionRe -> SectionMatch(s, pos)
      [] regexp = RuleRe -> RuleMatch(s, pos)
      [] regexp = DlRe -> DlMatch(s, pos)
      [] regexp = StarRe -> StarMatch(s, pos)
      [] regexp = IndentRe -> IndentMatch(s, pos)
      [] OTHER -> NoRegexMatch

ListSyntax ==
    Provider("ListSyntax",
             <<Contribution(StarRe, "build_star"),
               Contribution(BadRe, "build_bad")>>,
             <<Contribution(ReservedRe, "build_reserved"),
               Contribution(RowRe, "build_cell")>>)

TableSyntax ==
    Provider("TableSyntax", <<Contribution(RowRe, "build_table_row")>>, <<>>)

QuoteSyntax ==
    Provider("QuoteSyntax",
             <<Contribution(IndentRe, "build_quote")>>,
             <<Contribution(RowRe, "build_quote_row")>>)

ProviderPool == {TracWikiSyntax, ListSyntax, TableSyntax, QuoteSyntax}

MaxProviders == 2

\* the lists of at most MaxProviders different providers
ProviderLists ==
    {ps \in UNION {[1..m -> ProviderPool] : m \in 0..MaxProviders} :
        \A a, b \in DOMAIN ps : ps[a] = ps[b] => a = b}

\* _block_raw_re = None, and _block_raw_handlers not yet an attribute
NoneRe == [compiled |-> FALSE, regexps |-> <<>>]

NoHandlers == [set |-> FALSE, table |-> <<>>]

\* the matcher is cached, its dict of builders is not
AccessWithoutHandlers(cached, handlers, method) ==
    IF cached.compiled
    THEN [raises |-> FALSE, re |-> cached, handlers |-> NoHandlers,
          collects |-> <<>>]
    ELSE LET c == _collect_partial_patterns(providers, method)
         IN  [raises |-> FALSE,
              re |-> [compiled |-> TRUE, regexps |-> c.regexps],
              handlers |-> [set |-> TRUE, table |-> c.handlers],
              collects |-> <<method>>]

\* the matcher is composed at every access
AccessUncached(cached, handlers, method) ==
    LET c == _collect_partial_patterns(providers, method)
    IN  [raises |-> FALSE,
         re |-> [compiled |-> TRUE, regexps |-> c.regexps],
         handlers |-> [set |-> TRUE, table |-> c.handlers],
         collects |-> <<method>>]

\* the properties block_raw_re and block_sensitive_re: the cached matcher
\* and its handlers when there is one, else the matcher composed from the
\* providers, unless composing it raises
Access(cached, handlers, method) ==
    IF cached.compiled
    THEN [raises |-> FALSE, re |-> cached, handlers |-> handlers,
          collects |-> <<>>]
    ELSE LET c == _collect_partial_patterns(providers, method)
         IN  IF Composes(c.regexps)
             THEN [raises |-> FALSE,
                   re |-> [compiled |-> TRUE, regexps |-> c.regexps],
                   handlers |-> [set |-> TRUE, table |-> c.handlers],
                   collects |-> <<method>>]
             ELSE [raises |-> TRUE, re |-> cached, handlers |-> handlers,
                   collects |-> <<method>>]

block_raw_re ==
    Access(_block_raw_re, _block_raw_handlers, "get_wiki_line_patterns")

block_sensitive_re ==
    Access(_block_sensitive_re, _block_sensitive_handlers,
           "get_wiki_verbatim_sensitive_line_patterns")

---------------------------------------------------------------------------
(* The builders.  A builder gives the nodes it makes, the node it returns  *)
(* first; base is the number of nodes made so far, so that the node is     *)
(* number base + 1 and the nodes it refers to follow it.                   *)

Built(made) == [raises |-> FALSE, made |-> made]

Raised == [raises |-> TRUE, made |-> <<>>]

\* classic.py, build_ulist_item
build_ulist_item(base, ni, s, m) ==
    Built(<<[WikiNode("WikiItem", ni, m.gs, m.ge) EXCEPT
                !.kind = <<s[m.gs + 1]>>, !.nodes = <<base + 2>>],
            WikiNode("WikiInline", ni, m.ge + 1, -1)>>)

\* classic.py, build_row
build_row(base, ni, s, m) ==
    Built(<<[WikiNode("WikiRow", ni, m.end - 2, m.end) EXCEPT
                !.kind = <<"|", "|">>, !.nodes = <<base + 2>>],
            WikiNode("WikiInline", ni, m.end, -1)>>)

\* classic.py, build_section; sj is wikinodes[-1].j
build_section(base, ni, s, m, sj) ==
    LET depth == RunLen(s, m.start, {"="})
        heading == SubSeq(s, m.gs + 1, m.ge)
        both_sides ==
            /\ Len(heading) >= depth
            /\ \A q \in 1..depth : heading[Len(heading) - depth + q] = "="
        e == AnchorEnd(s, m.ge)
        k == sj + depth + 1
    IN  Built(<<[WikiNode("WikiSection", ni, sj, k) EXCEPT
                    !.kind = <<"=">>,
                    !.depth = depth,
                    !.both_sides = both_sides,
                    !.anchor = IF e > m.ge THEN SubSeq(s, m.ge + 2, e)
                               ELSE <<>>,
                    !.nodes = <<base + 2>>],
                WikiNode("WikiInline", ni, k,
                         IF both_sides THEN m.ge - depth ELSE m.ge)>>)

\* classic.py, build_rule: the name WikiRule is defined nowhere
build_rule(base, ni, s, m) == Raised

\* classic.py, build_dl
build_dl(base, ni, s, m) ==
    Built(<<[WikiNode("WikiDescriptionItem", ni, m.ge, m.ge + 2) EXCEPT
                !.kind = <<":", ":">>, !.term = base + 2,
                !.nodes = <<base + 3>>],
            WikiNode("WikiInline", ni, m.gs, m.ge),
            WikiNode("WikiInline", ni, m.ge + 2, -1)>>)

\* the builders of the other providers: an item for the span of the match
build_item(base, ni, s, m) ==
    Built(<<WikiNode("WikiItem", ni, m.start, m.end)>>)

\* builder(wikidoc, scopes, i, fullmatch)
CallBuilder(builder, base, ni, s, m) ==
    CASE builder = "build_ulist_item" -> build_ulist_item(base, ni, s, m)
      [] builder = "build_row" -> build_row(base, ni, s, m)
      [] builder = "build_section" -> build_section(base, ni, s, m, scope.j)
      [] builder = "build_rule" -> build_rule(base, ni, s, m)
      [] builder = "build_dl" -> build_dl(base, ni, s, m)
      [] OTHER -> build_item(base, ni, s, m)

\* the alternatives of the composed matcher that can match the line s at
\* column pos
Alternatives(regexps, s, pos) ==
    {a \in DOMAIN regexps : MatchAt(regexps[a].regexp, s, pos).ok}

\* the alternative of '(?:%s)' % '|'.join(regexps) that matches: the first
\* one that can; 0 when none does
FirstAlternative(hits) == IF hits = {} THEN 0 ELSE Least(hits)

NoCall ==
    [called |-> FALSE, key |-> <<>>, builder |-> "", raises |-> FALSE,
     made |-> <<>>]

\* return builder(wikidoc, scopes, i, fullmatch)
Call(key, builder, built) ==
    [called |-> TRUE, key |-> key, builder |-> builder,
     raises |-> built.raises, made |-> built.made]

\* if match and name.startswith('_i'): builder = handlers.get(name);
\* if builder: ..., for the group of the alternative that matched, m being
\* its match
GroupNode(handlers, ni, key, s, m, base) ==
    IF m.end = m.start \/ key \notin DOMAIN handlers THEN NoCall
    ELSE Call(key, handlers[key],
              CallBuilder(handlers[key], base, ni, s, m))

\* if fullmatch: ..., a being the alternative that matched
MatchNode(handlers, ni, regexps, s, pos, base, a) ==
    IF a = 0 THEN NoCall
    ELSE GroupNode(handlers, ni, regexps[a].key, s,
                   MatchAt(regexps[a].regexp, s, pos), base)

\* build_node(handlers, i, fullmatch), fullmatch being the match of the
\* matcher on the line s at column pos
build_node(handlers, ni, regexps, s, pos, base) ==
    MatchNode(handlers, ni, regexps, s, pos, base,
              FirstAlternative(Alternatives(regexps, s, pos)))

---------------------------------------------------------------------------
(* WikiParser._parse_between_blocks(wikidoc, [scope]), one action for each *)
(* path through the body of its while loop.                                *)

\* scope = scopes[-1]; oldnodes = scope.nodes; n = 0; newnodes = [];
\* i = scope.start
StartBetween ==
    /\ pc = "detected"
    /\ newnodes' = <<>>
    /\ oldn' = 0
    /\ i' = scope.start
    /\ pc' = "between"
    /\ UNCHANGED <<lines, heap, ancestors, j, paramVars, callerVars,
                   ruleVars, calls, safe_line>>

\* oldnode = oldnodes[n] if n < len(oldnodes) else None
oldnode == IF oldn < Len(scope.nodes) THEN scope.nodes[oldn + 1] ELSE -1

InBetween == pc = "between" /\ i < scope.end

AtOldNode == oldnode # -1 /\ i = heap[oldnode].i

\* the line is not one of a block, and is not empty
AtLine == InBetween /\ ~AtOldNode /\ lines[i + 1] # <<>>

\* the loop goes on at the closing line of the block: i = oldnode.end
MergeBlockToEnd ==
    /\ InBetween
    /\ AtOldNode
    /\ newnodes' = Append(newnodes, oldnode)
    /\ oldn' = oldn + 1
    /\ i' = heap[oldnode].end
    /\ UNCHANGED <<lines, heap, ancestors, j, pc, paramVars, callerVars,
                   ruleVars, calls, safe_line>>

\* the loop goes on at the line after the opening line: i += 1
MergeBlockOpeningLine ==
    /\ InBetween
    /\ AtOldNode
    /\ newnodes' = Append(newnodes, oldnode)
    /\ oldn' = oldn + 1
    /\ i' = i + 1
    /\ UNCHANGED <<lines, heap, ancestors, j, pc, paramVars, callerVars,
                   ruleVars, calls, safe_line>>

\* if oldnode and i == oldnode.i
MergeBlock ==
    /\ InBetween
    /\ AtOldNode
    /\ newnodes' = Append(newnodes, oldnode)
    /\ oldn' = oldn + 1
    /\ i' = heap[oldnode].end + 1
    /\ UNCHANGED <<lines, heap, ancestors, j, pc, paramVars, callerVars,
                   ruleVars, calls, safe_line>>

\* newnode = WikiBlankLine(i, scope.j)
ClassifyBlank ==
    /\ InBetween
    /\ ~AtOldNode
    /\ lines[i + 1] = <<>>
    /\ heap' = Append(heap, WikiNode("WikiBlankLine", i, scope.j, -1))
    /\ newnodes' = Append(newnodes, Len(heap) + 1)
    /\ i' = i + 1
    /\ UNCHANGED <<lines, ancestors, j, pc, paramVars, callerVars,
                   ruleVars, oldn, calls, safe_line>>

\* what the body of `if line:` comes to: the path taken, the nodes made,
\* the builder called, and the matchers as they are cached then
Outcome(path, node, category, raw, sensitive) ==
    [path |-> path,
     made |-> node.made,
     calls |-> IF node.called
               THEN <<[i |-> i, category |-> category, key |-> node.key,
                       builder |-> node.builder]>>
               ELSE <<>>,
     raw |-> raw,
     sensitive |-> sensitive,
     safe |-> <<>>]

\* safe_line = self.make_verbatime_safe(line) on the way to the outcome
Masked(outcome, safe) ==
    [outcome EXCEPT !.safe = <<[i |-> i, chars |-> safe]>>]

\* the matcher and the handlers of a category as they are cached
Cached(cached, handlers) ==
    [raises |-> FALSE, re |-> cached, handlers |-> handlers,
     collects |-> <<>>]

\* the node starts at the column of the scope: white space is not skipped
IndentNodeAtScope(line, e) ==
    [NoCall EXCEPT
        !.made = <<WikiNode(IF e < Len(line) THEN "WikiInline"
                            ELSE "WikiBlankLine", i, scope.j, -1)>>]

\* fullmatch = self._indent_re.match(line, scope.j); j = fullmatch.end(0);
\* newnode = (WikiInline if j < wikidoc.eol(i) else WikiBlankLine)(i, j)
IndentNode(line, e) ==
    [NoCall EXCEPT
        !.made = <<WikiNode(IF e < Len(line) THEN "WikiInline"
                            ELSE "WikiBlankLine", i, e, -1)>>]

\* if newnode is None, after the verbatim sensitive line patterns
AfterSensitive(line, raw, sensitive, node) ==
    IF node.called
    THEN Outcome(IF node.raises THEN "raises" ELSE "sensitive", node,
                 "sensitive", raw, sensitive)
    ELSE Outcome("indent",
                 IndentNode(line, After(line, Clamp(line, scope.j), WhiteSpace)),
                 "", raw, sensitive)

\* safe_line = self.make_verbatime_safe(line);
\* fullmatch = self.block_sensitive_re.match(safe_line, scope.j)
Sensitive(line, raw, sensitive) ==
    Masked(IF sensitive.raises
           THEN Outcome("raises", NoCall, "", raw, sensitive)
           ELSE AfterSensitive(line, raw, sensitive,
                    build_node(sensitive.handlers.table, i,
                               sensitive.re.regexps,
                               make_verbatime_safe(line), scope.j, Len(heap))),
           make_verbatime_safe(line))

\* if newnode is None, after the line patterns
AfterRaw(line, raw, node) ==
    IF node.called
    THEN Outcome(IF node.raises THEN "raises" ELSE "raw", node, "raw", raw,
                 Cached(_block_sensitive_re, _block_sensitive_handlers))
    ELSE Sensitive(line, raw, block_sensitive_re)

\* fullmatch = self.block_raw_re.match(line, scope.j)
Raw(line, raw) ==
    IF raw.raises
    THEN Outcome("raises", NoCall, "", raw,
                 Cached(_block_sensitive_re, _block_sensitive_handlers))
    ELSE AfterRaw(line, raw,
             build_node(raw.handlers.table, i, raw.re.regexps, line, scope.j,
                        Len(heap)))

\* the body of `if line:` for the line the loop is at
Classified == Raw(lines[i + 1], block_raw_re)

\* the matchers composed on the way are cached, the builder called is
\* recorded
Composed(outcome) ==
    /\ _block_raw_re' = outcome.raw.re
    /\ _block_raw_handlers' = outcome.raw.handlers
    /\ _block_sensitive_re' = outcome.sensitive.re
    /\ _block_sensitive_handlers' = outcome.sensitive.handlers
    /\ calls' = calls \o outcome.calls
    /\ safe_line' = IF outcome.safe # <<>> THEN outcome.safe ELSE safe_line
    /\ collected' = collected \o outcome.raw.collects
                         \o outcome.sensitive.collects

\* newnodes.append(newnode); i += 1
NewNode(path, outcome) ==
    /\ outcome.path = path
    /\ Composed(outcome)
    /\ heap' = heap \o outcome.made
    /\ newnodes' = Append(newnodes, Len(heap) + 1)
    /\ i' = i + 1
    /\ UNCHANGED <<lines, ancestors, j, pc, paramVars, callerVars,
                   providers, oldn>>

\* an exception leaves _parse_between_blocks
Raises(outcome) ==
    /\ outcome.path = "raises"
    /\ Composed(outcome)
    /\ pc' = "raised"
    /\ UNCHANGED <<lines, heap, ancestors, i, j, paramVars, callerVars,
                   providers, newnodes, oldn>>

\* a builder of the line patterns gives the node
ClassifyRaw == AtLine /\ NewNode("raw", Classified)

\* no builder of the line patterns gives a node, a builder of the verbatim
\* sensitive line patterns does
ClassifySensitive == AtLine /\ NewNode("sensitive", Classified)

\* no builder gives a node
ClassifyIndent == AtLine /\ NewNode("indent", Classified)

\* composing a matcher raises, or the builder that is called does
ClassifyRaises == AtLine /\ Raises(Classified)

\* scope.nodes = newnodes
FinishBetween ==
    /\ pc = "between"
    /\ i >= scope.end
    /\ heap' = [heap EXCEPT ![1].nodes = newnodes]
    /\ pc' = "done"
    /\ UNCHANGED <<lines, ancestors, i, j, paramVars, callerVars, ruleVars,
                   betweenVars>>

---------------------------------------------------------------------------
(* The documents: every sequence of at most MaxLines lines of Vocabulary,  *)
(* and the documents of trac/wiki/tests/parser.py.                         *)

\* an opening line, the token at column 2
OpenLine == <<" ", " ", "{", "{", "{">>

\* an opening line with an inline processor marker
OpenNamedLine == <<" ", "{", "{", "{", "#", "!", "n", " ", "k">>

\* a standalone closing line
EndLine == <<"}", "}", "}">>

\* an indented closing line with a trailing comment
EndCommentLine == <<" ", "}", "}", "}", " ", "c">>

\* a processor marker line
ProcessorLine == <<" ", "#", "!", "p", " ", "f">>

\* a one-line block
OneLineBlock == <<"{", "{", "{", "#", "!", "n", "}", "}", "}">>

\* an ordinary line
TextLine == <<"x">>

Vocabulary ==
    {OpenLine, OpenNamedLine, EndLine, EndCommentLine, ProcessorLine,
     OneLineBlock, TextLine}

MaxLines == 4

\* the largest column of a scope
MaxCol == 2

\* tests/parser.py, stillsingleblock
stillsingleblock ==
    << <<"{", "{", "{">>,
       <<"A", " ", "b", "l", "o", "c", "k">>,
       <<"{", "{", "{", "#", "!", "n", "o", "t", "}", "}", "}">>,
       <<"{", "{", "{", "a", "}", "}", "}">>,
       <<"}", "}", "}">> >>

\* tests/parser.py, nestedblock
nestedblock ==
    << <<"{", "{", "{", "#", "!", "e", "m", "b", "e", "d", "s">>,
       <<"A", " ", "b", "l", "o", "c", "k">>,
       <<"{", "{", "{", "#", "!", "n", "e", "s", "t", "e", "d">>,
       <<"b", "l", "o", "c", "k">>,
       <<"}", "}", "}">>,
       <<"}", "}", "}">> >>

\* tests/parser.py, scopedblock, the texts shortened
scopedblock ==
    << <<"A", "t", " ", "g", "l", "o", "b", "a", "l", " ", "l", "e", "v",
         "e", "l">>,
       <<">", " ", "B", "u", "t">>,
       <<">", " ", "{", "{", "{", "#", "!", "d", "i", "v">>,
       <<">", " ", "N", "e", "s", "t", "e", "d", ":">>,
       <<">", " ", ">", " ", "{", "{", "{">>,
       <<">", " ", ">", " ", ".", ".", ".">>,
       <<">", " ", ">", " ", "}", "}", "}">>,
       <<">", " ", "}", "}", "}">> >>

\* tests/parser.py, lines 111 to 115 of multilevelblock
pythonblock ==
    << <<" ", " ", " ", " ", "{", "{", "{">>,
       <<" ", " ", " ", " ", "#", "!", "p", "y", "t", "h", "o", "n">>,
       <<" ", " ", " ", " ", "d", "e", "f", " ", "h", "e", "l", "l", "o",
         "(", "s", "e", "l", "f", ")", ":">>,
       <<" ", " ", " ", " ", " ", " ", " ", "r", "e", "t", "u", "r", "n",
         " ", "\"", "w", "o", "r", "l", "d", "\"">>,
       <<" ", " ", " ", " ", "}", "}", "}", " ", "p", "y">> >>

\* a div holding a table holding a td, indented
divtabletd ==
    << <<"{", "{", "{", "#", "!", "d", "i", "v">>,
       <<"A", " ", "b", "l", "o", "c", "k", ":">>,
       <<" ", " ", "{", "{", "{", "#", "!", "t", "a", "b", "l", "e", " ",
         "s", "t", "y", "l", "e", "=", "\"", "x", "\"">>,
       <<" ", " ", "{", "{", "{", "#", "!", "t", "d">>,
       <<" ", " ", "}", "}", "}">>,
       <<" ", " ", "}", "}", "}">>,
       <<"}", "}", "}">> >>

\* the directive forms: on one line with the closing token, and as opening lines
directives ==
    << <<"{", "{", "{", "#", "!", "n", "a", "m", "e", " ", "k", "e", "y",
         "=", "\"", "a", " ", "b", "\"", " ", "f", "l", "a", "g", "}", "}",
         "}">>,
       <<"{", "{", "{", "#", "!", "n", "a", "m", "e", " ", "-", "f", "l",
         "a", "g", "}", "}", "}">>,
       <<"{", "{", "{", "#", "!", "n", "a", "m", "e", " ", "k", "e", "y",
         "=", "\"", "a", " ", "b", "\"", " ", "f", "l", "a", "g">>,
       <<"}", "}", "}">>,
       <<"{", "{", "{", "#", "!", "n", "a", "m", "e", " ", "-", "f", "l",
         "a", "g">>,
       <<"}", "}", "}">> >>

\* the formatting of TracWikiSyntax: a section, a blank line, an item, a
\* row, a term, and a term inside backquotes
formatting ==
    << <<"=", " ", "T", "i", "t", "l", "e", " ", "=", " ", "#", "t", "o", "p">>,
       <<>>,
       <<" ", "-", " ", "i", "t", "e", "m">>,
       <<"|", "|", "a", "|", "|", "b", "|", "|">>,
       <<" ", "t", "e", "r", "m", ":", ":", " ", "d", "e", "f">>,
       <<" ", Backquote, "a", ":", ":", " ", "b", Backquote>>,
       <<" ", " ", " ">> >>

\* a horizontal rule
ruled ==
    << <<"t", "e", "x", "t">>,
       <<"-", "-", "-", "-">> >>

Fixtures ==
    {stillsingleblock, nestedblock, scopedblock, pythonblock, divtabletd,
     directives, formatting, ruled}

Documents ==
    Fixtures \cup UNION {[1..n -> Vocabulary] : n \in 0..MaxLines}

\* the lines the documents of the rules specification are made of: an
\* item with a dash, an item with a star, a row, an indented row, a term,
\* an empty line and a closing line
BulletLine == <<" ", "-", " ", "a">>

StarLine == <<" ", "*", " ", "a">>

RowLine == <<"|", "|", "a">>

IndentedRowLine == <<" ", "|", "|", "a">>

TermLine == <<" ", "t", ":", ":", " ", "d">>

BlankLine == <<>>

RuleVocabulary ==
    {BulletLine, StarLine, RowLine, IndentedRowLine, TermLine, BlankLine,
     EndLine}

MaxRuleLines == 2

RuleDocuments ==
    Fixtures \cup UNION {[1..m -> RuleVocabulary] : m \in 1..MaxRuleLines}

\* a closing line with a comment and white space after it
EndTrailingLine == <<" ", "}", "}", "}", " ", "c", " ">>

\* the lines the documents of the scoped specification are made of
ScopedVocabulary ==
    {OpenLine, OpenNamedLine, EndLine, EndCommentLine, EndTrailingLine,
     ProcessorLine}

\* a block whose first content line opens a named block, which holds a
\* block further to the right; the first line is not of the scope
markedchild ==
    << <<"x">>,
       <<" ", "{", "{", "{">>,
       <<" ", "{", "{", "{", "#", "!", "n">>,
       <<" ", " ", " ", " ", "{", "{", "{">>,
       <<" ", " ", " ", " ", "}", "}", "}">>,
       <<" ", "}", "}", "}">>,
       <<" ", "}", "}", "}">> >>

ScopedDocuments ==
    Fixtures \cup {markedchild}
        \cup UNION {[1..n -> ScopedVocabulary] : n \in 1..MaxLines}

\* the scopes of the tests: a WikiBlock(i, j) whose end is then set; the
\* generated documents are scanned from their second line on
Scopes(text) ==
    {[WikiBlock(si, sj, <<>>, <<>>) EXCEPT !.end = e] :
        si \in IF text \in Fixtures THEN 0..(Len(text) - 1) ELSE {0},
        sj \in 0..MaxCol, e \in 1..Len(text)}

---------------------------------------------------------------------------
(* The arguments of parse_processor_params: at most MaxTokens tokens, each *)
(* one preceded by a space, as the text after `#!name` is.                 *)

Token(kind, name, val, text) ==
    [kind |-> kind, name |-> name, val |-> val, text |-> text]

\* k="a b"
QuotedToken ==
    Token("quoted", <<"k">>, StrVal(<<"a", " ", "b">>),
          <<"k", "=", "\"", "a", " ", "b", "\"">>)

\* f='c-d=e'
SingleQuotedToken ==
    Token("quoted", <<"f">>, StrVal(<<"c", "-", "d", "=", "e">>),
          <<"f", "=", "'", "c", "-", "d", "=", "e", "'">>)

\* k=v
BareToken == Token("bare", <<"k">>, StrVal(<<"v">>), <<"k", "=", "v">>)

\* f=w
OtherBareToken == Token("bare", <<"f">>, StrVal(<<"w">>), <<"f", "=", "w">>)

\* f
FlagToken == Token("flag", <<"f">>, BoolVal(TRUE), <<"f">>)

\* -f
NoFlagToken == Token("noflag", <<"f">>, BoolVal(FALSE), <<"-", "f">>)

\* -k
OtherNoFlagToken == Token("noflag", <<"k">>, BoolVal(FALSE), <<"-", "k">>)

\* a lone -
DashToken == Token("dash", <<>>, BoolVal(FALSE), <<"-">>)

TokenPool ==
    {QuotedToken, SingleQuotedToken, BareToken, OtherBareToken, FlagToken,
     NoFlagToken, OtherNoFlagToken, DashToken}

MaxTokens == 3

RECURSIVE Joined(_)
\* the text of the tokens, a space before each
Joined(ts) ==
    IF ts = <<>> THEN <<>> ELSE <<" ">> \o Head(ts).text \o Joined(Tail(ts))

\* parse_processor_params(processor_params), up to its return
ParseParams ==
    /\ pc = "call"
    /\ result' = parse_processor_params(argument)
    /\ pc' = "return"
    /\ UNCHANGED <<lines, heap, ancestors, i, j, tokens, argument, ruleVars,
                   betweenVars, callerVars>>

---------------------------------------------------------------------------
(* WikiDocument.__init__(text): the text, which may be None, and its       *)
(* lines.                                                                  *)

None == [none |-> TRUE, chars |-> <<>>]

Text(chars) == [none |-> FALSE, chars |-> chars]

\* text or ''
OrEmpty(text) == IF text.none THEN <<>> ELSE text.chars

\* re.sub(WikiParser._normalize_re, ' ', text); the vertical tab is not
\* among the characters of the model
normalize(chars) ==
    [q \in DOMAIN chars |-> IF chars[q] = "\f" THEN " " ELSE chars[q]]

\* the characters that end a line
LineEnds == {"\n", "\r"}

RECURSIVE SplitLinesFrom(_, _)
\* text.splitlines() from position p on: p..e-1 is a line, ended by the
\* line end at e (\r\n being one line end) or by the end of the text, and
\* there is no line after the last line end
SplitLinesFrom(chars, p) ==
    IF p > Len(chars) THEN <<>>
    ELSE LET e == FirstOf(chars, p, LineEnds)
             after == IF /\ e < Len(chars)
                         /\ chars[e] = "\r"
                         /\ chars[e + 1] = "\n"
                      THEN e + 2 ELSE e + 1
         IN  <<SubSeq(chars, p, e - 1)>> \o SplitLinesFrom(chars, after)

splitlines(chars) == SplitLinesFrom(chars, 1)

\* self.lines of WikiDocument(text)
LinesOf(text) == splitlines(normalize(OrEmpty(text)))

RECURSIVE Terminated(_)
\* the text of the lines ls, each ended by \n
Terminated(ls) ==
    IF ls = <<>> THEN <<>> ELSE ls[1] \o <<"\n">> \o Terminated(Tail(ls))

---------------------------------------------------------------------------
\* the start of _detect_nested_blocks(wikidoc, sc)
Start(sc) ==
    /\ heap = <<sc>>
    /\ i = sc.start
    /\ ancestors = <<1>>
    /\ j = -1
    /\ pc = "scan"

\* no call of parse_processor_params from outside the parse
NoParamsCall ==
    /\ tokens = <<>>
    /\ argument = <<>>
    /\ result = <<>>

\* a parser that has not yet composed a matcher
NewParser(provs) ==
    /\ providers = provs
    /\ _block_raw_re = NoneRe
    /\ _block_raw_handlers = NoHandlers
    /\ _block_sensitive_re = NoneRe
    /\ _block_sensitive_handlers = NoHandlers
    /\ newnodes = <<>>
    /\ oldn = 0
    /\ calls = <<>>
    /\ safe_line = <<>>
    /\ collected = <<>>
    /\ previous = <<>>
    /\ threads = <<>>

\* parse(wikitext): the scope is the document
Init ==
    /\ lines \in Documents
    /\ wikitext = Text(Terminated(lines))
    /\ Start(WikiDocument(lines))
    /\ NoParamsCall
    /\ NewParser(<<TracWikiSyntax>>)

\* the start of _detect_nested_blocks(wikidoc, sc), sc being a block that
\* is not the document: the document is a node outside the scope
StartWithin(sc, wikidoc) ==
    /\ heap = <<sc, wikidoc>>
    /\ i = sc.start
    /\ ancestors = <<1>>
    /\ j = -1
    /\ pc = "scan"

\* the tests' detect_nested_blocks(source, scope)
InitScoped ==
    /\ lines \in ScopedDocuments
    /\ wikitext = Text(Terminated(lines))
    /\ \E sc \in Scopes(lines) :
          sc.start <= sc.end /\ StartWithin(sc, WikiDocument(lines))
    /\ NoParamsCall
    /\ NewParser(<<TracWikiSyntax>>)

\* parse(wikitext) with the parser of a list of providers
InitRules ==
    /\ lines \in RuleDocuments
    /\ wikitext = Text(Terminated(lines))
    /\ Start(WikiDocument(lines))
    /\ NoParamsCall
    /\ \E provs \in ProviderLists : NewParser(provs)

RuleLine == <<"-", "-", "-", "-">>

FormFeedLine == <<"x", "\f", "y">>

\* lines for each path of the detection and of the classification, and a
\* line with a character that the normalization replaces
TextVocabulary ==
    {OpenLine, EndLine, OneLineBlock, TextLine, BlankLine, BulletLine,
     TermLine, RuleLine, FormFeedLine}

MaxTextLines == 2

\* the line ends between the lines of a text
Separators == {<<"\n">>, <<"\r", "\n">>, <<"\r">>}

RECURSIVE JoinLines(_, _)
\* sep.join(ls)
JoinLines(ls, sep) ==
    IF ls = <<>> THEN <<>>
    ELSE IF Len(ls) = 1 THEN ls[1]
    ELSE ls[1] \o sep \o JoinLines(Tail(ls), sep)

\* no text, and the texts of at most MaxTextLines lines, with and without
\* a line end after the last line
Texts ==
    {None} \cup
    {Text(JoinLines(ls, sep) \o last) :
        ls \in UNION {[1..n -> TextVocabulary] : n \in 0..MaxTextLines},
        sep \in Separators, last \in {<<>>, <<"\n">>}}

\* parse(wikitext): the document is made from the text
InitText ==
    /\ wikitext \in Texts
    /\ lines = LinesOf(wikitext)
    /\ Start(WikiDocument(lines))
    /\ NoParamsCall
    /\ NewParser(<<TracWikiSyntax>>)

\* the pieces the lines of the masking specification are made of
SafePieces == {<<Backquote>>, STARTBLOCK, ENDBLOCK, <<"}">>, <<"a">>}

MaxPieces == 5

\* the lines of at most MaxPieces pieces
SafeLines ==
    {JoinLines(ps, <<>>) :
        ps \in UNION {[1..n -> SafePieces] : n \in 1..MaxPieces}}

\* parse(wikitext) of a text of one such line, or of a fixture
InitSafe ==
    /\ lines \in Fixtures \cup {<<line>> : line \in SafeLines}
    /\ wikitext = Text(Terminated(lines))
    /\ Start(WikiDocument(lines))
    /\ NoParamsCall
    /\ NewParser(<<TracWikiSyntax>>)

\* a call of parse_processor_params
InitParams ==
    /\ tokens \in UNION {[1..n -> TokenPool] : n \in 0..MaxTokens}
    /\ argument = Joined(tokens)
    /\ result = <<>>
    /\ pc = "call"
    /\ wikitext = None
    /\ lines = <<>>
    /\ heap = <<WikiDocument(<<>>)>>
    /\ ancestors = <<1>>
    /\ i = 0
    /\ j = -1
    /\ NewParser(<<TracWikiSyntax>>)

\* the text of another document
OtherText == Text(Terminated(<<TermLine, StarLine>>))

\* the number of calls of parse on one parser
MaxParses == 2

\* parse(wikitext) once more on the same parser, after a parse that has
\* returned or raised: wikidoc = WikiDocument(wikitext), and
\* vertical_parsing starts on it; the attributes of the parser stay
ParseAgain ==
    /\ pc \in {"done", "raised"}
    /\ Len(previous) < MaxParses - 1
    /\ previous' = Append(previous, [wikitext |-> wikitext, pc |-> pc,
                                     heap |-> heap, calls |-> calls])
    /\ wikitext' \in {wikitext, OtherText}
    /\ lines' = LinesOf(wikitext')
    /\ heap' = <<WikiDocument(lines')>>
    /\ i' = 0
    /\ ancestors' = <<1>>
    /\ j' = -1
    /\ pc' = "scan"
    /\ newnodes' = <<>>
    /\ oldn' = 0
    /\ calls' = <<>>
    /\ safe_line' = <<>>
    /\ UNCHANGED <<paramVars, ruleVars, threads>>

---------------------------------------------------------------------------
(* Threads that classify a line on one parser at the same time: each       *)
(* evaluates self.block_raw_re and then reads self._block_raw_handlers, a  *)
(* statement at a time; the parser has no lock.                            *)

MaxThreads == 2

\* a thread about to evaluate self.block_raw_re, with the locals it will
\* have: regexps and handlers in the property, and the matcher and the
\* dict it ends up using
NewThread ==
    [pc |-> "access", regexps |-> <<>>, handlers |-> <<>>,
     re |-> NoneRe, table |-> NoHandlers]

\* what a step of a thread leaves alone, the attributes of the line
\* patterns apart
threadRest ==
    <<parseVars, paramVars, betweenVars, wikitext, previous, providers,
      _block_sensitive_re, _block_sensitive_handlers>>

\* if self._block_raw_re is None:
TestCached(t) ==
    /\ threads[t].pc = "access"
    /\ threads' = [threads EXCEPT
                      ![t].pc = IF _block_raw_re.compiled THEN "return"
                                ELSE "collect"]
    /\ UNCHANGED <<threadRest, _block_raw_re, _block_raw_handlers, collected>>

\* regexps, handlers = self._collect_partial_patterns(...)
Collect(t) ==
    /\ threads[t].pc = "collect"
    /\ LET c == _collect_partial_patterns(providers, "get_wiki_line_patterns")
       IN  threads' = [threads EXCEPT ![t].pc = "compile",
                                      ![t].regexps = c.regexps,
                                      ![t].handlers = c.handlers]
    /\ collected' = Append(collected, "get_wiki_line_patterns")
    /\ UNCHANGED <<threadRest, _block_raw_re, _block_raw_handlers>>

\* self._block_raw_re = re.compile('(?:%s)' % '|'.join(regexps), re.UNICODE)
Compile(t) ==
    /\ threads[t].pc = "compile"
    /\ IF Composes(threads[t].regexps)
       THEN /\ _block_raw_re' =
                   [compiled |-> TRUE, regexps |-> threads[t].regexps]
            /\ threads' = [threads EXCEPT ![t].pc = "store"]
       ELSE /\ threads' = [threads EXCEPT ![t].pc = "raised"]
            /\ UNCHANGED _block_raw_re
    /\ UNCHANGED <<threadRest, _block_raw_handlers, collected>>

\* self._block_raw_handlers = handlers
StoreHandlers(t) ==
    /\ threads[t].pc = "store"
    /\ _block_raw_handlers' = [set |-> TRUE, table |-> threads[t].handlers]
    /\ threads' = [threads EXCEPT ![t].pc = "return"]
    /\ UNCHANGED <<threadRest, _block_raw_re, collected>>

\* return self._block_raw_re
ReturnMatcher(t) ==
    /\ threads[t].pc = "return"
    /\ threads' = [threads EXCEPT ![t].pc = "handlers",
                                  ![t].re = _block_raw_re]
    /\ UNCHANGED <<threadRest, _block_raw_re, _block_raw_handlers, collected>>

\* build_node(self._block_raw_handlers, i, fullmatch): the attribute is
\* read, which raises AttributeError when it is not yet set
ReadHandlers(t) ==
    /\ threads[t].pc = "handlers"
    /\ threads' = [threads EXCEPT
                      ![t].pc = IF _block_raw_handlers.set THEN "done"
                                ELSE "raised",
                      ![t].table = _block_raw_handlers]
    /\ UNCHANGED <<threadRest, _block_raw_re, _block_raw_handlers, collected>>

\* a step of one of the threads
Thread ==
    \/ \E t \in DOMAIN threads : TestCached(t)
    \/ \E t \in DOMAIN threads : Collect(t)
    \/ \E t \in DOMAIN threads : Compile(t)
    \/ \E t \in DOMAIN threads : StoreHandlers(t)
    \/ \E t \in DOMAIN threads : ReturnMatcher(t)
    \/ \E t \in DOMAIN threads : ReadHandlers(t)

\* the threads start on a parser that has composed no matcher
InitThreads ==
    /\ providers \in ProviderLists
    /\ _block_raw_re = NoneRe
    /\ _block_raw_handlers = NoHandlers
    /\ _block_sensitive_re = NoneRe
    /\ _block_sensitive_handlers = NoHandlers
    /\ collected = <<>>
    /\ threads = [t \in 1..MaxThreads |-> NewThread]
    /\ previous = <<>>
    /\ wikitext = Text(Terminated(<<RowLine>>))
    /\ lines = LinesOf(wikitext)
    /\ Start(WikiDocument(lines))
    /\ NoParamsCall
    /\ newnodes = <<>>
    /\ oldn = 0
    /\ calls = <<>>
    /\ safe_line = <<>>

\* _detect_nested_blocks, one path at a time
Detect ==
    \/ SkipEndInside
    \/ StrayEnd
    \/ CloseBlock
    \/ OpenBlock
    \/ SkipLine
    \/ CloseUnfinished

\* _parse_between_blocks, one path at a time
Between ==
    \/ StartBetween
    \/ MergeBlock
    \/ ClassifyBlank
    \/ ClassifyRaw
    \/ ClassifySensitive
    \/ ClassifyIndent
    \/ ClassifyRaises
    \/ FinishBetween

\* vertical_parsing: _detect_nested_blocks, then _parse_between_blocks
Next == Detect \/ Between

Spec == Init /\ [][Next]_vars

SpecScoped == InitScoped /\ [][Next]_vars

SpecRules == InitRules /\ [][Next]_vars

SpecText == InitText /\ [][Next]_vars

SpecSafe == InitSafe /\ [][Next]_vars

\* parse called several times on one parser
NextAgain == Detect \/ Between \/ ParseAgain

SpecAgain == InitRules /\ [][NextAgain]_vars

SpecParams == InitParams /\ [][ParseParams]_vars

SpecThreads == InitThreads /\ [][Thread]_vars

---------------------------------------------------------------------------
(* The vocabulary of the properties.                                       *)

Range(seq) == {seq[n] : n \in DOMAIN seq}

\* the line numbers of the scope
ScopeLines == scope.start..(scope.end - 1)

\* line n, read from the scope's column, is a standalone closing line
ClosingLine(n) == StartsWith(Strip(ScopedLine(n)), ENDBLOCK)

\* line n, read from the scope's column, holds the closing token
\* without starting with it
EndInsideLine(n) == Contains(ScopedLine(n), ENDBLOCK) /\ ~ClosingLine(n)

\* line n, read from the scope's column, is an opening line
OpeningLine(n) ==
    ~Contains(ScopedLine(n), ENDBLOCK) /\ StartBlockMatch(ScopedLine(n)).ok

RECURSIVE Below(_)
\* the nodes of the tree rooted in node n, n excluded
Below(n) == UNION {{c} \cup Below(c) : c \in Range(heap[n].nodes)}

\* the blocks of the heap: every node but the scope
Blocks == {b \in 2..Len(heap) : heap[b].type = "WikiBlock"}

RECURSIVE DepthAfter(_)
\* the number of blocks open before line n of the scope when every closing
\* line closes the last opening line not closed yet; -1 once a closing line
\* has nothing to close
DepthAfter(n) ==
    IF n <= scope.start THEN 0
    ELSE LET d == DepthAfter(n - 1)
         IN  IF d < 0 THEN -1
             ELSE IF OpeningLine(n - 1) THEN d + 1
             ELSE IF ClosingLine(n - 1) THEN d - 1
             ELSE d

\* every opening line of the scope is closed by its own closing line
WellFormed == DepthAfter(scope.end) = 0

OpeningLines == {n \in ScopeLines : OpeningLine(n)}

RECURSIVE OpenBefore(_)
\* the number of blocks open before line n of the scope when a closing line
\* closes the last opening line not closed yet, if there is one
OpenBefore(n) ==
    IF n <= scope.start THEN 0
    ELSE IF OpeningLine(n - 1) THEN OpenBefore(n - 1) + 1
    ELSE IF ClosingLine(n - 1) /\ OpenBefore(n - 1) > 0
    THEN OpenBefore(n - 1) - 1
    ELSE OpenBefore(n - 1)

\* line n is a standalone closing line which has no block to close
StrayLine(n) == ClosingLine(n) /\ OpenBefore(n) = 0

\* the children of the scope made for line n
NodesAt(n) == {c \in Range(scope.nodes) : heap[c].i = n}

\* the types of the nodes a line is classified as
LineTypes ==
    {"WikiItem", "WikiDescriptionItem", "WikiRow", "WikiSection",
     "WikiInline", "WikiBlankLine"}

---------------------------------------------------------------------------
(* C1: for a well-formed document of N opening lines, each closed by its   *)
(* own standalone closing line, the detection yields exactly N blocks,     *)
(* and every block has start <= end and end > i.                           *)
C1_BalancedNesting ==
    (pc = "detected" /\ WellFormed) =>
        /\ Cardinality(Below(1)) = Cardinality(OpeningLines)
        /\ \A b \in Below(1) :
              /\ heap[b].type = "WikiBlock"
              /\ heap[b].start <= heap[b].end
              /\ heap[b].end > heap[b].i

\* a well-formed document of two blocks or more, one inside another
C1_Witness ==
    /\ pc = "detected"
    /\ WellFormed
    /\ Cardinality(OpeningLines) >= 2
    /\ \E b \in Below(1) : heap[b].nodes # <<>>

(* C2: every block still open when the scan reaches the end of the scope,  *)
(* at any depth, is closed with end = scope.end and stays a child of the   *)
(* block it was opened in, and the detection returns.                      *)
C2_UnfinishedBlocks ==
    [][(pc = "scan" /\ i >= scope.end) =>
          /\ pc' = "detected"
          /\ \A d \in 2..Len(ancestors) :
                /\ heap'[ancestors[d]].end = heap[1].end
                /\ ancestors[d] \in Range(heap'[ancestors[d - 1]].nodes)
          /\ \A n \in 1..Len(heap) : heap'[n].nodes = heap[n].nodes]_vars

\* two blocks, one inside the other, closed by the end of the scope
C2_Witness ==
    /\ pc = "detected"
    /\ \E a \in Blocks : \E b \in Range(heap[a].nodes) :
          /\ ~(\E n \in ScopeLines : n > heap[b].i /\ ClosingLine(n))
          /\ heap[a].end = scope.end
          /\ heap[b].end = scope.end

(* C3: a standalone closing line met while only the scope is on the stack  *)
(* of open blocks changes no node (no block is made, none is closed, the   *)
(* end and the comment of the scope stay) and the scan goes on to the next *)
(* line; after the classification that line has exactly one node, which    *)
(* is no block, and no block covers it.                                    *)
C3_Ignored ==
    (pc = "scan" /\ i < scope.end /\ ClosingLine(i) /\ Len(ancestors) = 1) =>
        /\ heap' = heap
        /\ ancestors' = ancestors
        /\ pc' = "scan"
        /\ i' = i + 1

C3_Classified ==
    pc = "done" =>
        \A n \in ScopeLines :
            StrayLine(n) =>
                /\ \A b \in Blocks : ~(heap[b].i <= n /\ n <= heap[b].end)
                /\ Cardinality(NodesAt(n)) = 1
                /\ \A c \in NodesAt(n) : heap[c].type \in LineTypes

C3_StrayClosingLine == [][C3_Ignored]_vars /\ []C3_Classified

\* a closing line with nothing to close after a block that was closed, and
\* the node the classification gave it
C3_Witness ==
    /\ pc = "done"
    /\ \E n \in ScopeLines :
          /\ StrayLine(n)
          /\ \E b \in Blocks : heap[b].end < n
          /\ \E c \in NodesAt(n) : heap[c].type = "WikiInline"

(* C4: an opening line creates a block appended as the last child of the   *)
(* innermost open block, a standalone closing line closes exactly the      *)
(* innermost open block, whatever their indentation; the div / table / td  *)
(* document yields div > table (style = "x") > td, all three closed by     *)
(* their closing lines.                                                    *)
C4_Opens ==
    (InScan /\ OpeningLine(i)) =>
        LET new == Len(heap) + 1
        IN  /\ Len(heap') = new
            /\ heap'[new].type = "WikiBlock"
            /\ heap'[new].i = i
            /\ heap'[new].nodes = <<>>
            /\ heap'[Top].nodes = Append(heap[Top].nodes, new)
            /\ ancestors' = Append(ancestors, new)
            /\ \A n \in 1..Len(heap) :
                  n # Top => heap'[n] = heap[n]

C4_Closes ==
    (InScan /\ ClosingLine(i) /\ Len(ancestors) > 1) =>
        /\ ancestors' = SubSeq(ancestors, 1, Len(ancestors) - 1)
        /\ heap'[Top].end = i
        /\ Len(heap') = Len(heap)
        /\ \A n \in 1..Len(heap) : n # Top => heap'[n] = heap[n]

C4_DivTableTd ==
    (pc = "detected" /\ lines = divtabletd) =>
        /\ Len(heap) = 4
        /\ heap[1].nodes = <<2>> /\ heap[2].nodes = <<3>>
        /\ heap[3].nodes = <<4>> /\ heap[4].nodes = <<>>
        /\ heap[2].name = <<"d", "i", "v">> /\ heap[2].params = <<>>
        /\ heap[3].name = <<"t", "a", "b", "l", "e">>
        /\ DOMAIN heap[3].params = {<<"s", "t", "y", "l", "e">>}
        /\ heap[3].params[<<"s", "t", "y", "l", "e">>] = StrVal(<<"x">>)
        /\ heap[4].name = <<"t", "d">> /\ heap[4].params = <<>>
        /\ <<heap[2].i, heap[2].end>> = <<0, 6>>
        /\ <<heap[3].i, heap[3].end>> = <<2, 5>>
        /\ <<heap[4].i, heap[4].end>> = <<3, 4>>

C4_InnermostBlock ==
    [][C4_Opens /\ C4_Closes]_vars /\ []C4_DivTableTd

\* the div / table / td document once scanned
C4_Witness == pc = "detected" /\ lines = divtabletd /\ Len(heap) = 4

(* C5 as stated: a one-line form with an inline processor marker between  *)
(* the opening and the closing token yields a block with that name and     *)
(* those parameters.                                                       *)
C5_OneLineForm ==
    (pc = "detected" /\ lines = directives) =>
        /\ \E b \in Below(1) :
              /\ heap[b].i = 0
              /\ heap[b].name = <<"n", "a", "m", "e">>
              /\ DOMAIN heap[b].params = {<<"k", "e", "y">>, <<"f", "l", "a", "g">>}
        /\ \E b \in Below(1) :
              /\ heap[b].i = 1
              /\ DOMAIN heap[b].params = {<<"f", "l", "a", "g">>}

(* C5, amended: an opening line with an inline processor marker and no     *)
(* closing token yields a block with that name and its parameters,         *)
(*   {{{#!name key="a b" flag  gives name, {key: "a b", flag: true},       *)
(*   {{{#!name -flag           gives name, {flag: false};                  *)
(* a line which also holds the closing token yields no block.              *)
C5_OpeningLineDirective ==
    /\ pc \in {"scan", "detected"} =>
          \A b \in Blocks : ~Contains(ScopedLine(heap[b].i), ENDBLOCK)
    /\ (pc = "detected" /\ lines = directives) =>
          /\ {heap[b].i : b \in Below(1)} = {2, 4}
          /\ \A b \in Below(1) :
                /\ heap[b].name = <<"n", "a", "m", "e">>
                /\ heap[b].end = heap[b].i + 1
                /\ heap[b].i = 2 =>
                      /\ DOMAIN heap[b].params
                            = {<<"k", "e", "y">>, <<"f", "l", "a", "g">>}
                      /\ heap[b].params[<<"k", "e", "y">>]
                            = StrVal(<<"a", " ", "b">>)
                      /\ heap[b].params[<<"f", "l", "a", "g">>] = BoolVal(TRUE)
                /\ heap[b].i = 4 =>
                      /\ DOMAIN heap[b].params = {<<"f", "l", "a", "g">>}
                      /\ heap[b].params[<<"f", "l", "a", "g">>] = BoolVal(FALSE)

\* the directive forms once scanned: two blocks, of the two opening lines
C5_Witness ==
    /\ pc = "detected"
    /\ lines = directives
    /\ Cardinality(Below(1)) = 2
    /\ \E b \in Below(1) : heap[b].params # <<>>

(* C6: a line which holds the closing token without starting with it once  *)
(* trimmed neither opens nor closes a block: the stack and the nodes are   *)
(* unchanged, and the block around it ends at its own closing line.        *)
C6_StillSingleBlock ==
    (pc = "detected" /\ lines = stillsingleblock) =>
        /\ Len(heap) = 2
        /\ heap[1].nodes = <<2>>
        /\ heap[2].nodes = <<>>
        /\ <<heap[2].i, heap[2].start, heap[2].end>> = <<0, 1, 4>>

C6_EndInsideLine ==
    /\ [][(InScan /\ EndInsideLine(i)) =>
             /\ ancestors' = ancestors
             /\ heap' = heap
             /\ i' = i + 1]_vars
    /\ []C6_StillSingleBlock

\* a block closed by its closing line after a line with the token inside
C6_Witness ==
    /\ pc = "detected"
    /\ \E b \in Blocks : \E n \in ScopeLines :
          /\ heap[b].i < n /\ n < heap[b].end
          /\ EndInsideLine(n)
          /\ heap[b].end \in ScopeLines
          /\ ClosingLine(heap[b].end)
          /\ heap[b].nodes = <<>>

(* C7: in any scope, when a closing line closes a block with no name and   *)
(* at least one content line, the first content line of that block, read   *)
(* from the scope's column, decides alone: a processor marker advances     *)
(* start by one line and gives the name and the params, anything else      *)
(* leaves start, name and params as they are; a block named on its         *)
(* opening line is not inspected.                                          *)
C7_FirstContentLine ==
    [][(InScan /\ ClosingLine(i) /\ Len(ancestors) > 1) =>
          LET block == heap[Top]
              closed == heap'[Top]
              first == Drop(lines[block.start + 1], scope.j)
              marker == ProcessorMatch(first)
          IN  IF block.name = <<>> /\ i - block.start > 0 /\ marker.ok
              THEN /\ closed.start = block.start + 1
                   /\ closed.name = marker.name
                   /\ closed.params
                         = parse_processor_params(Drop(first, marker.end))
              ELSE /\ closed.start = block.start
                   /\ closed.name = block.name
                   /\ closed.params = block.params]_vars

---------------------------------------------------------------------------
(* The properties of parse_processor_params.                               *)

\* the tokens which name a parameter
NamedTokens == {n \in DOMAIN tokens : tokens[n].kind # "dash"}

(* C8: every token is mapped after its kind: name="..." and name='...' to  *)
(* the text between the quotes, name=bareword to the bareword, a bareword  *)
(* to True, -name to False, a lone - to nothing; no other key appears.     *)
(* Of several tokens of one name, one gives the value.                     *)
C8_TokenKinds ==
    pc = "return" =>
        /\ DOMAIN result = {tokens[n].name : n \in NamedTokens}
        /\ \A key \in DOMAIN result :
              \E n \in NamedTokens :
                  tokens[n].name = key /\ result[key] = tokens[n].val
        /\ \A n \in NamedTokens :
              (\A m \in NamedTokens : tokens[m].name = tokens[n].name => m = n)
                  => result[tokens[n].name] = tokens[n].val

\* a quoted value, a flag and a lone dash, parsed
C8_Witness ==
    /\ pc = "return"
    /\ tokens = <<QuotedToken, NoFlagToken, DashToken>>
    /\ DOMAIN result = {<<"k">>, <<"f">>}

(* C9: when a name occurs more than once, in any mix of name=value tokens  *)
(* and flags, the dict holds the value of its last occurrence in the text. *)
C9_LastWriteWins ==
    pc = "return" =>
        \A n \in NamedTokens :
            (\A m \in NamedTokens : tokens[m].name = tokens[n].name => m <= n)
                => result[tokens[n].name] = tokens[n].val


\* the contributions of the providers to a category that
\* _collect_partial_patterns accepts, in the order they are registered
Accepted(method) ==
    SelectSeq(Contributions(providers, method),
              LAMBDA c : ~Forbidden(c.regexp) /\ Compiles(c.regexp))

\* the accepted contributions whose pattern matches text at the column of
\* the scope
Matching(method, text) ==
    {a \in DOMAIN Accepted(method) :
        MatchAt(Accepted(method)[a].regexp, text, scope.j).ok}

\* the builders invoked for line n, in the order of their invocation
CallsAt(n) == SelectSeq(calls, LAMBDA c : c.i = n)

\* the lines of the scope the classification has been through, blank lines
\* and the lines of the blocks apart
ClassifiedLines ==
    {n \in ScopeLines :
        /\ n < i
        /\ lines[n + 1] # <<>>
        /\ \A b \in Blocks : ~(heap[b].i <= n /\ n <= heap[b].end)}

\* the builder of the earliest of the contributions of a category that
\* match text is the one builder invoked for line n
EarliestFires(n, method, category, text) ==
    Cardinality(Matching(method, text)) >= 2 =>
        /\ Len(CallsAt(n)) = 1
        /\ CallsAt(n)[1].category = category
        /\ CallsAt(n)[1].builder =
               Accepted(method)[Least(Matching(method, text))].builder

(* C10: when at least two accepted patterns of a category match a line at *)
(* the column of the scope, the builder of the one registered first is     *)
(* invoked for the line, and no other builder is: for the line patterns,   *)
(* and, when the line patterns invoke no builder, for the verbatim         *)
(* sensitive line patterns on the line made verbatim safe.                 *)
C10_EarliestBuilderFires ==
    pc \in {"between", "done"} =>
        \A n \in ClassifiedLines :
            /\ EarliestFires(n, "get_wiki_line_patterns", "raw", lines[n + 1])
            /\ (\A c \in Range(CallsAt(n)) : c.category # "raw") =>
                   EarliestFires(n, "get_wiki_verbatim_sensitive_line_patterns",
                                 "sensitive", make_verbatime_safe(lines[n + 1]))


\* the two categories of patterns: the method that gives the contributions,
\* the cached matcher and its dict of builders
Categories ==
    {[method |-> "get_wiki_line_patterns", category |-> "raw",
      re |-> _block_raw_re, handlers |-> _block_raw_handlers],
     [method |-> "get_wiki_verbatim_sensitive_line_patterns",
      category |-> "sensitive",
      re |-> _block_sensitive_re, handlers |-> _block_sensitive_handlers]}

\* the keys of a composed matcher, in the order of its alternatives
KeysOf(re) == [a \in DOMAIN re.regexps |-> re.regexps[a].key]

\* the contributions wanted are the alternatives of the composed matcher of
\* the category c, in their order, each under a key of its own that the
\* dict maps to its builder, and the dict has no other key
Registers(c, wanted) ==
    /\ Len(c.re.regexps) = Len(wanted)
    /\ \A a \in DOMAIN wanted :
          /\ c.re.regexps[a].regexp = wanted[a].regexp
          /\ c.re.regexps[a].key \in DOMAIN c.handlers.table
          /\ c.handlers.table[c.re.regexps[a].key] = wanted[a].builder
    /\ \A a, b \in DOMAIN wanted : KeysOf(c.re)[a] = KeysOf(c.re)[b] => a = b
    /\ DOMAIN c.handlers.table = Range(KeysOf(c.re))

\* the parse was left by an exception a builder raised, not by one of the
\* composition of a matcher
RaisedByBuilder ==
    /\ calls # <<>>
    /\ calls[Len(calls)].i = i

\* a pattern that compiles on its own
Standalone(c) == Compiles(c.regexp)

\* a line pattern that matches line n with a match that is not empty, no
\* earlier accepted line pattern matching, has its builder invoked
TakesEffect(n) ==
    LET hits == Matching("get_wiki_line_patterns", lines[n + 1])
    IN  (/\ hits # {}
         /\ LET m == MatchAt(Accepted("get_wiki_line_patterns")[Least(hits)].regexp,
                             lines[n + 1], scope.j)
            IN  m.end > m.start) =>
            \E c \in Range(CallsAt(n)) :
                /\ c.category = "raw"
                /\ c.builder =
                       Accepted("get_wiki_line_patterns")[Least(hits)].builder

\* some contribution to the category c does not compile on its own
SomeInvalid(c) ==
    \E x \in Range(Contributions(providers, c.method)) : ~Standalone(x)

(* C11: a contribution whose pattern does not compile on its own is in     *)
(* neither the composed matcher nor the dict of builders; all the other    *)
(* contributions that are not rejected for a reserved name, before and     *)
(* after it, of its provider and of the others, are registered in their   *)
(* order and their builders are invoked for the lines they match; and no   *)
(* exception leaves the composition of the matcher.                        *)
C11_InvalidPatternDropped ==
    \A c \in Categories :
        SomeInvalid(c) =>
            /\ c.re.compiled =>
                   Registers(c, SelectSeq(Contributions(providers, c.method),
                                          LAMBDA x : Standalone(x)
                                                       /\ ~Forbidden(x.regexp)))
            /\ pc = "raised" => RaisedByBuilder
            /\ pc \in {"between", "done"} =>
                   \A n \in ClassifiedLines : TakesEffect(n)

\* the pattern of ListSyntax that does not compile is dropped, the one
\* before it and the one of the provider after it have built a node each
C11_Witness ==
    /\ pc = "done"
    /\ providers = <<ListSyntax, TableSyntax>>
    /\ _block_raw_re.compiled
    /\ \E c \in Range(calls) : c.builder = "build_star"
    /\ \E c \in Range(calls) : c.builder = "build_table_row"

\* the name is _i and digits
ReservedName(name) ==
    /\ Len(name) > 2
    /\ SubSeq(name, 1, 2) = <<"_", "i">>
    /\ \A q \in 3..Len(name) : name[q] \in Digits

\* the pattern of the contribution names a group with a reserved name
UsesReserved(x) ==
    \E name \in Range(GroupNamesFrom(x.regexp, 1)) : ReservedName(name)

\* some contribution to the category c uses a reserved name
SomeReserved(c) ==
    \E x \in Range(Contributions(providers, c.method)) : UsesReserved(x)

(* C12: a contribution whose pattern names a group _i<digits> is in        *)
(* neither the composed matcher nor the dict of builders, the other        *)
(* contributions that compile are collected all the same, in their order, *)
(* and composing the matcher raises nothing; every key of the dict is a    *)
(* name _i<digits> given by the collection, and no pattern registered      *)
(* names a group so.                                                       *)
C12_ReservedNameRejected ==
    \A c \in Categories :
        /\ SomeReserved(c) =>
              /\ c.re.compiled =>
                     Registers(c, SelectSeq(Contributions(providers, c.method),
                                            LAMBDA x : Compiles(x.regexp)
                                                         /\ ~UsesReserved(x)))
              /\ pc = "raised" => RaisedByBuilder
        /\ c.re.compiled =>
              /\ \A k \in DOMAIN c.handlers.table :
                    ReservedName(k) /\ k \in Range(KeysOf(c.re))
              /\ \A a \in DOMAIN c.re.regexps :
                    ~UsesReserved(c.re.regexps[a])

\* the pattern of ListSyntax with the group _i0 is rejected, the one after
\* it has built a node
C12_Witness ==
    /\ pc = "done"
    /\ ListSyntax \in Range(providers)
    /\ _block_sensitive_re.compiled
    /\ "build_reserved" \notin Range(_block_sensitive_handlers.table)
    /\ \E c \in Range(calls) : c.builder = "build_cell"


\* how far the parse has come: the method it is in, then the line
Phase ==
    CASE pc = "scan" -> 0
      [] pc = "detected" -> 1
      [] pc = "between" -> 2
      [] OTHER -> 3

Progress == Phase * (Len(lines) + 2) + i

(* C13: for every document, whatever its lines, parse raises nothing, and  *)
(* it comes to its end: every step takes it further through the lines or   *)
(* into the next method, and the last one returns the document.            *)
C13_ParseReturns ==
    /\ [](pc # "raised")
    /\ [][/\ Progress' > Progress
          /\ Phase' <= Phase + 1
          /\ i' <= Len(lines) + 1]_vars


(* C14: two calls of parse with the same text on one parser, the providers *)
(* being the same, come to the same end (a return or the same exception)   *)
(* with the same tree: the same nodes with the same attributes and the     *)
(* same children in the same order, and the same builders invoked; the     *)
(* first of the two composes the matchers, the second finds them cached.   *)
C14_SameTextSameTree ==
    pc \in {"done", "raised"} =>
        \A r \in Range(previous) :
            r.wikitext = wikitext =>
                /\ r.pc = pc
                /\ r.heap = heap
                /\ r.calls = calls

\* a second parse of a text with nodes made by builders, the matchers
\* having been composed by the first
C14_Witness ==
    /\ pc = "done"
    /\ previous # <<>>
    /\ previous[1].wikitext = wikitext
    /\ _block_raw_re.compiled
    /\ _block_sensitive_re.compiled
    /\ \E c \in Range(calls) : c.category = "raw"
    /\ \E c \in Range(calls) : c.category = "sensitive"

\* the methods asked of the providers by the step
NewlyCollected == SubSeq(collected', Len(collected) + 1, Len(collected'))

\* the matcher re of a method, once composed, and its dict stay what they
\* are and the method is asked of no provider
StaysBuilt(re, handlers, re2, handlers2, method) ==
    re.compiled =>
        /\ re2 = re
        /\ handlers2 = handlers
        /\ method \notin Range(NewlyCollected)

(* C15: once a matcher is composed, no step of any parse on the parser,    *)
(* the first or a later one, changes it or its dict of builders, and the   *)
(* method it was collected with is not asked of the providers again: the   *)
(* providers were asked exactly once for it, and the contributions         *)
(* rejected then are in no later matcher.                                  *)
C15_BuiltOnce ==
    /\ [][/\ StaysBuilt(_block_raw_re, _block_raw_handlers, _block_raw_re',
                        _block_raw_handlers', "get_wiki_line_patterns")
          /\ StaysBuilt(_block_sensitive_re, _block_sensitive_handlers,
                        _block_sensitive_re', _block_sensitive_handlers',
                        "get_wiki_verbatim_sensitive_line_patterns")]_vars
    /\ [](\A c \in Categories :
             c.re.compiled =>
                 Len(SelectSeq(collected, LAMBDA x : x = c.method)) = 1)

\* a second parse has used both matchers, composed by the first parse
\* from providers of which contributions were rejected
C15_Witness ==
    /\ pc = "done"
    /\ previous # <<>>
    /\ ListSyntax \in Range(providers)
    /\ Len(collected) = 2
    /\ \E c \in Range(calls) : c.category = "sensitive"
    /\ \E c \in Range(previous[1].calls) : c.category = "sensitive"


\* the threads that have the matcher and the dict they use
Served == {t \in DOMAIN threads : threads[t].pc = "done"}

(* C16: when several threads make the first use of the matcher of the line *)
(* patterns of one parser at the same time, the providers are collected    *)
(* and the matcher is composed at most once, no thread fails, and all the  *)
(* threads use the same matcher and the same dict of builders, which are   *)
(* the ones the parser keeps.                                              *)
C16_ComposedOnce ==
    /\ Len(collected) <= 1
    /\ \A t \in DOMAIN threads : threads[t].pc # "raised"
    /\ \A t \in Served :
          /\ threads[t].re = _block_raw_re
          /\ threads[t].table = _block_raw_handlers
          /\ \A u \in Served :
                /\ threads[u].re = threads[t].re
                /\ threads[u].table = threads[t].table


\* the line ends of a text, \r\n being one
EndsOfLines(chars) ==
    {q \in DOMAIN chars :
        /\ chars[q] \in LineEnds
        /\ ~(chars[q] = "\r" /\ q < Len(chars) /\ chars[q + 1] = "\n")}

\* the number of lines of a text: one for each line end, and one for what
\* follows the last line end
LineCount(chars) ==
    Cardinality(EndsOfLines(chars))
        + (IF chars # <<>> /\ chars[Len(chars)] \notin LineEnds THEN 1 ELSE 0)

\* the document has just been constructed
Constructed == pc = "scan" /\ i = 0

(* C17: the document made from a text has start = 0 and end = the number   *)
(* of its lines, which is the number of lines of the text, from its        *)
(* construction to the end of the parse, and it has no children when it    *)
(* is constructed; no text and the empty text give a document of no        *)
(* lines, in which the detection of blocks finds no block.                 *)
C17_DocumentSpan ==
    /\ scope.type = "WikiDocument"
    /\ scope.start = 0
    /\ scope.end = Len(lines)
    /\ Len(lines) = LineCount(OrEmpty(wikitext))
    /\ Constructed => scope.nodes = <<>> /\ Len(heap) = 1
    /\ (wikitext.none \/ wikitext.chars = <<>>) =>
           /\ lines = <<>>
           /\ Blocks = {}
           /\ scope.nodes = <<>>

\* a text of two lines with a block, parsed to the end
C17_Witness ==
    /\ pc = "done"
    /\ Len(lines) = 2
    /\ Blocks # {}
    /\ \E q \in DOMAIN wikitext.chars : wikitext.chars[q] = "\r"


\* the token is in line n at the absolute column col, which is not left of
\* the column of the scope, with nothing but white space from there to it
TokenAt(n, col, token) ==
    /\ col >= scope.j
    /\ col + Len(token) <= Len(lines[n + 1])
    /\ SubSeq(lines[n + 1], col + 1, col + Len(token)) = token
    /\ \A q \in (scope.j + 1)..col : lines[n + 1][q] \in WhiteSpace

\* the blocks that a closing line has closed
ClosedByLine ==
    {b \in Blocks : b \notin Range(ancestors) /\ heap[b].end # scope.end}

(* C18: the detection of the blocks of a scope reads the lines start to    *)
(* end - 1 of the scope and no other; every block is opened by a line of   *)
(* the scope that has the opening token at or after the column of the      *)
(* scope, after white space only, and the column j of the block is the     *)
(* column of that token in the whole line; every block closed by a line    *)
(* is closed by a line of the scope, after its opening line, that has the  *)
(* closing token at or after the column of the scope, after white space    *)
(* only.                                                                   *)
C18_ScopeColumn ==
    /\ pc = "scan" => scope.start <= i /\ i <= scope.end
    /\ \A b \in Blocks :
          /\ heap[b].i \in ScopeLines
          /\ heap[b].start \in (scope.start + 1)..scope.end
          /\ TokenAt(heap[b].i, heap[b].j, STARTBLOCK)
    /\ \A b \in ClosedByLine :
          /\ heap[b].end \in ScopeLines
          /\ heap[b].end > heap[b].i
          /\ \E col \in 0..Len(lines[heap[b].end + 1]) :
                TokenAt(heap[b].end, col, ENDBLOCK)

\* a scope at column 1 from the second line on: a block opened right of
\* that column and closed by a line, and a closing token left of the
\* column that closed nothing
C18_Witness ==
    /\ pc = "detected"
    /\ scope.j = 1
    /\ scope.start = 1
    /\ \E b \in ClosedByLine :
          /\ heap[b].j > scope.j
          /\ \E n \in (heap[b].i + 1)..(heap[b].end - 1) :
                SubSeq(lines[n + 1], 1, 3) = ENDBLOCK


\* the child c of the scope is a block
IsBlock(c) == heap[c].type = "WikiBlock"

\* the child c of the scope covers line n: a block covers its lines from
\* the opening line to the line of its end, another node its own line
Covers(c, n) ==
    IF IsBlock(c) THEN heap[c].i <= n /\ n <= heap[c].end ELSE heap[c].i = n

\* the children go by increasing lines
Ascending(kids) ==
    \A a, b \in DOMAIN kids : a < b => heap[kids[a]].i < heap[kids[b]].i

(* C19: when the classification of the lines of a scope has come to the    *)
(* end of the scope, the new children hold the blocks that were the        *)
(* children of the scope, each once and in their order; and when it has    *)
(* returned, the children of the scope are those, they go by strictly      *)
(* increasing lines, the ones that are not blocks are nodes of one line,   *)
(* and every line of the scope is covered by exactly one child.            *)
C19_ChildrenCoverScope ==
    /\ (pc = "between" /\ i >= scope.end) =>
           SelectSeq(newnodes, IsBlock) = scope.nodes
    /\ pc = "done" =>
           /\ scope.nodes = newnodes
           /\ Ascending(scope.nodes)
           /\ \A c \in Range(scope.nodes) :
                 IsBlock(c) \/ heap[c].type \in LineTypes
           /\ \A n \in ScopeLines :
                 Cardinality({a \in DOMAIN scope.nodes :
                                 Covers(scope.nodes[a], n)}) = 1

\* a scope with a line before a block that a line closes, and a line after
C19_Witness ==
    /\ pc = "done"
    /\ Len(scope.nodes) >= 3
    /\ \E a \in 2..(Len(scope.nodes) - 1) :
          /\ IsBlock(scope.nodes[a])
          /\ ~IsBlock(scope.nodes[a - 1])
          /\ ~IsBlock(scope.nodes[a + 1])


\* the new children made for line n
NewNodesAt(n) == {a \in DOMAIN newnodes : heap[newnodes[a]].i = n}

\* a line pattern, and a verbatim sensitive line pattern, match line n
RawMatches(n) == Matching("get_wiki_line_patterns", lines[n + 1]) # {}

SensitiveMatches(n) ==
    Matching("get_wiki_verbatim_sensitive_line_patterns",
             make_verbatime_safe(lines[n + 1])) # {}

(* C20: a line that is not empty and in no block gets exactly one node,    *)
(* from at most one builder: from a builder of the line patterns when a    *)
(* line pattern matches it, whether a verbatim sensitive line pattern      *)
(* matches it too or not; else from a builder of the verbatim sensitive    *)
(* line patterns when one of those matches it made verbatim safe; and      *)
(* from the indentation, as a WikiInline or a WikiBlankLine, only when no   *)
(* pattern of either category matches.                                     *)
C20_RawThenSensitive ==
    pc \in {"between", "done"} =>
        \A n \in ClassifiedLines :
            /\ Cardinality(NewNodesAt(n)) = 1
            /\ Len(CallsAt(n)) <= 1
            /\ RawMatches(n) =>
                   /\ Len(CallsAt(n)) = 1
                   /\ CallsAt(n)[1].category = "raw"
            /\ (~RawMatches(n) /\ SensitiveMatches(n)) =>
                   /\ Len(CallsAt(n)) = 1
                   /\ CallsAt(n)[1].category = "sensitive"
            /\ (~RawMatches(n) /\ ~SensitiveMatches(n)) =>
                   /\ CallsAt(n) = <<>>
                   /\ \A a \in NewNodesAt(n) :
                         heap[newnodes[a]].type \in {"WikiInline", "WikiBlankLine"}


\* the lines of the scope that the classification has been through and
\* that are in no block
Uncovered ==
    {n \in ScopeLines :
        /\ n < i
        /\ \A b \in Blocks : ~(heap[b].i <= n /\ n <= heap[b].end)}

\* line n holds nothing but white space from the column of the scope on
BlankFrom(n) ==
    \A q \in (scope.j + 1)..Len(lines[n + 1]) : lines[n + 1][q] \in WhiteSpace

\* col is the first column of line n, from the column of the scope on,
\* that does not hold white space
FirstContent(n, col) ==
    /\ scope.j <= col /\ col < Len(lines[n + 1])
    /\ lines[n + 1][col + 1] \notin WhiteSpace
    /\ \A q \in (scope.j + 1)..col : lines[n + 1][q] \in WhiteSpace

(* C21: a line of the scope that is in no block and for which no builder   *)
(* is invoked gets one node, of the line's own index: a WikiBlankLine when *)
(* the line is empty or holds only white space from the column of the      *)
(* scope on, else a WikiInline whose column is the first one, at or after  *)
(* the column of the scope, that does not hold white space.                *)
C21_IndentFallback ==
    pc \in {"between", "done"} =>
        \A n \in Uncovered :
            CallsAt(n) = <<>> =>
                /\ Cardinality(NewNodesAt(n)) = 1
                /\ \A a \in NewNodesAt(n) :
                      /\ heap[newnodes[a]].i = n
                      /\ heap[newnodes[a]].nodes = <<>>
                      /\ IF BlankFrom(n)
                         THEN heap[newnodes[a]].type = "WikiBlankLine"
                         ELSE /\ heap[newnodes[a]].type = "WikiInline"
                              /\ FirstContent(n, heap[newnodes[a]].j)

\* a scope at a column right of 0 with a line that holds white space and
\* then text from that column on, and a line that holds text but none
\* from that column on
C21_Witness ==
    /\ pc = "done"
    /\ scope.j > 0
    /\ calls = <<>>
    /\ \E n \in Uncovered :
          /\ ~BlankFrom(n)
          /\ \E a \in NewNodesAt(n) : heap[newnodes[a]].j > scope.j
    /\ \E n \in Uncovered : BlankFrom(n) /\ lines[n + 1] # <<>>


\* the columns a to b - 1 of the line s are a span of inline code: a
\* backquote, characters other than the backquote, at least one, and a
\* backquote
InlineSpan(s, a, b) ==
    /\ b - a >= 3
    /\ s[a + 1] = Backquote /\ s[b] = Backquote
    /\ \A q \in (a + 2)..(b - 1) : s[q] # Backquote

\* the columns a to b - 1 of the line s are a one-line block: the opening
\* token, a content of at least one character that holds no closing token
\* and does not end with a brace, and the closing token
BlockSpan(s, a, b) ==
    /\ b - a >= 7
    /\ SubSeq(s, a + 1, a + 3) = STARTBLOCK
    /\ SubSeq(s, b - 2, b) = ENDBLOCK
    /\ s[b - 3] # "}"
    /\ \A q \in (a + 4)..(b - 5) : SubSeq(s, q, q + 2) # ENDBLOCK

\* the spans of the line s that can be masked
Spans(s) ==
    {sp \in (0..Len(s)) \X (0..Len(s)) :
        /\ sp[1] < sp[2]
        /\ InlineSpan(s, sp[1], sp[2]) \/ BlockSpan(s, sp[1], sp[2])}

\* every column of the span is the filler character in the line t
Filled(t, sp) == \A r \in (sp[1] + 1)..sp[2] : t[r] = "x"

\* t is the line s with spans of it masked: as long as s, each character
\* kept at its column or in a span that is filled, the leftmost span of
\* s being one of these
MaskOf(s, t) ==
    /\ Len(t) = Len(s)
    /\ \A q \in 1..Len(s) :
          \/ t[q] = s[q]
          \/ \E sp \in Spans(s) : sp[1] < q /\ q <= sp[2] /\ Filled(t, sp)
    /\ \A sp \in Spans(s) :
          (\A other \in Spans(s) : sp[1] <= other[1]) => Filled(t, sp)

(* C22: the line that make_verbatime_safe returns is as long as the line   *)
(* it is given; a character that is in no masked span of inline code or    *)
(* of a one-line block is the same, at the same column; every character   *)
(* of a masked span is the filler character x.                             *)
C22_MaskKeepsColumns ==
    safe_line # <<>> =>
        MaskOf(lines[safe_line[1].i + 1], safe_line[1].chars)

\* a line with a character before and after a masked one-line block
C22_Witness ==
    /\ pc = "done"
    /\ safe_line # <<>>
    /\ Len(lines) = 1
    /\ \E sp \in Spans(lines[1]) :
          /\ BlockSpan(lines[1], sp[1], sp[2])
          /\ 0 < sp[1] /\ sp[2] < Len(lines[1])
          /\ Filled(safe_line[1].chars, sp)
          /\ safe_line[1].chars[sp[1]] = lines[1][sp[1]]
          /\ safe_line[1].chars[sp[2] + 1] = "}"


\* the private group name of number num
PrivateName(num) == <<"_", "i">> \o Str(num)

(* C23: one call of _collect_partial_patterns gives the contributions it    *)
(* accepts, in the order it accepts them, the names _i0, _i1, ... with no  *)
(* number left out for a rejected contribution; the names differ from one  *)
(* another; and the dict of builders has one entry for each accepted       *)
(* contribution and no other, from its name to its own builder.            *)
C23_ConsecutiveNames ==
    \A c \in Categories :
        c.re.compiled =>
            /\ Len(c.re.regexps) = Len(Accepted(c.method))
            /\ \A a \in DOMAIN c.re.regexps :
                  /\ c.re.regexps[a].key = PrivateName(a - 1)
                  /\ c.re.regexps[a].regexp = Accepted(c.method)[a].regexp
                  /\ c.handlers.table[PrivateName(a - 1)] =
                         Accepted(c.method)[a].builder
                  /\ \A b \in DOMAIN c.re.regexps :
                        c.re.regexps[a].key = c.re.regexps[b].key => a = b
            /\ c.handlers.set
            /\ DOMAIN c.handlers.table =
                   {PrivateName(a - 1) : a \in 1..Len(Accepted(c.method))}
            /\ Cardinality(DOMAIN c.handlers.table) = Len(Accepted(c.method))

\* the second contribution of the first provider is rejected, and the
\* first one of the second provider has the name _i1 and its own builder
C23_Witness ==
    /\ pc = "done"
    /\ Len(providers) = 2
    /\ _block_raw_re.compiled
    /\ ~Compiles(providers[1].get_wiki_line_patterns[2].regexp)
    /\ Len(_block_raw_re.regexps) >= 3
    /\ _block_raw_re.regexps[2].key = <<"_", "i", "1">>
    /\ _block_raw_handlers.table[<<"_", "i", "1">>] =
           providers[2].get_wiki_line_patterns[1].builder


\* the last column of line n that does not hold white space, counted from 1
LastContent(n) ==
    Greatest({q \in 1..Len(lines[n + 1]) : lines[n + 1][q] \notin WhiteSpace})

\* what follows, in line n, the closing token at column col, up to the
\* last character that is not white space
Following(n, col) ==
    SubSeq(lines[n + 1], col + Len(ENDBLOCK) + 1, LastContent(n))

(* C24: a block that a standalone closing line has closed has for end the  *)
(* index of that line, and for comment the text that follows the closing   *)
(* token in that line, the white space at the end of the line apart: the   *)
(* empty text when the line, trimmed, is the closing token alone; a block  *)
(* that is still open, or that was closed at the end of the scope, has an  *)
(* empty comment.                                                          *)
C24_ClosingComment ==
    /\ \A b \in ClosedByLine :
          /\ heap[b].end \in ScopeLines
          /\ ClosingLine(heap[b].end)
          /\ \E col \in scope.j..Len(lines[heap[b].end + 1]) :
                /\ TokenAt(heap[b].end, col, ENDBLOCK)
                /\ heap[b].comment = Following(heap[b].end, col)
          /\ Strip(ScopedLine(heap[b].end)) = ENDBLOCK =>
                 heap[b].comment = <<>>
    /\ \A b \in Blocks \ ClosedByLine : heap[b].comment = <<>>

\* a block closed by a line with a comment and white space after it, and
\* a block closed at the end of the scope
C24_Witness ==
    /\ pc = "detected"
    /\ \E b \in ClosedByLine :
          /\ lines[heap[b].end + 1] = EndTrailingLine
          /\ heap[b].comment = <<" ", "c">>
    /\ \E b \in Blocks \ ClosedByLine :
          /\ heap[b].end = scope.end
          /\ heap[b].comment = <<>>


\* the nodes that are not of the scope: the document, when the scope is a
\* block of its own
Outside == {n \in 2..Len(heap) : heap[n].type = "WikiDocument"}

\* the node as it is now but for its list of nodes, taken from the node was
WithNodesOf(now, was) == [now EXCEPT !.nodes = was.nodes]

(* C25: no step of the detection of the blocks or of the classification of *)
(* the lines changes the lines of the document, the providers, or a node   *)
(* outside the scope; of the scope it changes the list of nodes only, so   *)
(* start, end and column stay; no node is removed; and apart from that     *)
(* the steps change blocks made in this pass, the state of the loops and   *)
(* the cached matchers only.                                               *)
C25_Frame ==
    [][/\ lines' = lines
       /\ providers' = providers
       /\ Len(heap') >= Len(heap)
       /\ WithNodesOf(heap'[1], heap[1]) = heap[1]
       /\ <<heap'[1].start, heap'[1].end, heap'[1].j>> =
              <<heap[1].start, heap[1].end, heap[1].j>>
       /\ \A n \in Outside : heap'[n] = heap[n]
       /\ \A n \in 2..Len(heap) :
             heap'[n] # heap[n] =>
                 /\ heap[n].type = "WikiBlock"
                 /\ n \in Below(1)
                 /\ heap'[n].i = heap[n].i /\ heap'[n].j = heap[n].j]_vars

\* a scope that is a block of its own, at a column right of 0, after the
\* detection and the classification: it has got nodes, one of them a block
\* with a comment, the matcher is cached, and the document is as it was
C25_Witness ==
    /\ pc = "done"
    /\ scope.type = "WikiBlock"
    /\ scope.j > 0
    /\ Outside = {2}
    /\ heap[2] = WikiDocument(lines)
    /\ Len(scope.nodes) >= 2
    /\ \E b \in Blocks : heap[b].comment # <<>>
    /\ _block_raw_re.compiled


\* the threads that have got the matcher from the property and then found
\* no dict of builders
Unserved ==
    {t \in DOMAIN threads :
        threads[t].re.compiled /\ threads[t].pc = "raised"}

(* C26: in every state of threads that use one parser at the same time,   *)
(* when the matcher of the line patterns is set, so that a thread can get  *)
(* it, its dict of builders is set too; and no thread that has got the     *)
(* matcher finds the dict missing.                                         *)
C26_HandlersWithMatcher ==
    /\ _block_raw_re.compiled => _block_raw_handlers.set
    /\ Unserved = {}


\* the children of node b that are blocks, in their order
BlocksOf(b) == SelectSeq(heap[b].nodes, IsBlock)

\* the children kids of node b lie within its content, in the order of the
\* lines and apart from one another
Inside(b, kids) ==
    \A a \in DOMAIN kids :
        /\ heap[b].start <= heap[kids[a]].i
        /\ heap[kids[a]].end <= heap[b].end
        /\ a > 1 => heap[kids[a - 1]].end < heap[kids[a]].i

(* C27: after the detection of the blocks of a scope, every block that is  *)
(* a child of the scope or of a block lies within the content of its       *)
(* parent, parent.start <= child.i and child.end <= parent.end, and of two *)
(* consecutive children of one parent the first ends before the line that  *)
(* opens the second.                                                       *)
C27_ChildrenInside ==
    pc # "scan" => \A b \in {1} \cup Blocks : Inside(b, BlocksOf(b))


\* the blocks that no line has closed, once the detection has closed them
\* at the end of the scope
ClosedAtEnd ==
    {b \in Blocks : pc # "scan" /\ b \notin ClosedByLine}

\* line n, read from the column of the scope, is a processor marker line
MarkerLine(n) == ProcessorMatch(ScopedLine(n)).ok

(* C28: a block closed at the end of the scope, no line having closed it,  *)
(* is not looked at for a processor marker on its first content line: its  *)
(* start is i + 1, and its name and params are the ones of the inline      *)
(* marker of its opening line, empty when that line has none, even when    *)
(* its first content line is a processor marker line.                      *)
C28_ForceClosedUninspected ==
    \A b \in ClosedAtEnd :
        /\ heap[b].end = scope.end
        /\ heap[b].start = heap[b].i + 1
        /\ heap[b].name = StartBlockMatch(ScopedLine(heap[b].i)).name
        /\ heap[b].params =
               IF heap[b].name = <<>> THEN <<>>
               ELSE parse_processor_params(
                        Drop(ScopedLine(heap[b].i),
                             StartBlockMatch(ScopedLine(heap[b].i)).end))

\* a block opened without an inline marker, its first content line a
\* processor marker line of the scope, closed at the end of the scope
C28_Witness ==
    /\ pc = "detected"
    /\ \E b \in ClosedAtEnd :
          /\ heap[b].name = <<>>
          /\ heap[b].start < scope.end
          /\ MarkerLine(heap[b].start)


\* the nodes made for a line: the nodes of the types a line is classified
\* as that are not parts of another such node
LineNodes ==
    {n \in 2..Len(heap) :
        /\ heap[n].type \in LineTypes
        /\ \A c \in 2..Len(heap) :
              heap[c].type \in LineTypes =>
                  n \notin Range(heap[c].nodes) /\ n # heap[c].term}

\* the blocks that are children of the document
TopBlocks == {b \in Range(scope.nodes) : IsBlock(b)}

(* C29: when parse has returned, the nodes made for the lines are children *)
(* of the document and of no other node; every child of a block that is    *)
(* not the document is a block; and no node is made for a line from the    *)
(* opening line to the closing line of a block that is a child of the      *)
(* document.                                                               *)
C29_LineNodesAtTopLevel ==
    pc = "done" =>
        /\ scope.type = "WikiDocument"
        /\ \A n \in LineNodes :
              /\ n \in Range(scope.nodes)
              /\ \A b \in Blocks : n \notin Range(heap[b].nodes)
        /\ \A b \in Blocks : \A c \in Range(heap[b].nodes) : IsBlock(c)
        /\ \A b \in TopBlocks :
              \A n \in LineNodes :
                  ~(heap[b].i <= heap[n].i /\ heap[n].i <= heap[b].end)

\* a document with a line before a block that a line closes, the block
\* holding a line of text
C29_Witness ==
    /\ pc = "done"
    /\ LineNodes # {}
    /\ \E b \in TopBlocks :
          /\ heap[b].end < scope.end
          /\ \E n \in heap[b].start..(heap[b].end - 1) : lines[n + 1] = TextLine

=============================================================================
